---- MODULE Spec2Model ----
(***************************************************************************)
(* Table planner: the record store (storage.py) and the signup state       *)
(* machine driven by the interaction handlers (views.py, modals.py).       *)
(*                                                                         *)
(* The two partition files are the shared state.  Every handler            *)
(* invocation runs in a worker: a coroutine of one bot process or a        *)
(* handler of a second process started on the same data directory.  A      *)
(* handler reads the active file, reads the archived file, mutates its     *)
(* private copy, then writes the active file and the archived file; each   *)
(* file access takes and releases the file lock on its own (storage.py     *)
(* _locked_file), so the steps of different workers interleave between     *)
(* file accesses.                                                          *)
(***************************************************************************)
EXTENDS Integers, Sequences, FiniteSets, TLC

\* ---------------------------------------------------------------- bounds
MaxWorkers == 2
MaxTables == 2
MaxUser == 3
MaxCap == 2
MaxClock == 1
MaxText == 1
MaxOps == 5
MaxOverlaps == 1
MaxRacingOps == 3
MaxSeats == 3
MaxTime == 2
MaxSerialTables == 1

Workers == 1..MaxWorkers
Users == 1..MaxUser
Caps == 1..MaxCap
Texts == 1..MaxText
Seats == 1..MaxSeats

\* the values a submitted form carries for system / schedule / infos
Forms == {[system |-> s, schedule |-> s, infos |-> s] : s \in Texts}

\* ------------------------------------------------------------ data model
None == "None"

\* class ArchiveReason(str, Enum): the members, and the strings stored on disk
ArchiveReasonMOD == "ArchiveReason.MOD"
ArchiveReasonOWNER == "ArchiveReason.OWNER"
ArchiveReasonNO_ACCESS == "ArchiveReason.NO_ACCESS"
ArchiveReasonKICK == "ArchiveReason.KICK"
ArchiveReasonMembers ==
    {ArchiveReasonMOD, ArchiveReasonOWNER, ArchiveReasonNO_ACCESS, ArchiveReasonKICK}

\* ArchiveReason(value): the member of a stored string
ArchiveReason(reason) ==
    CASE reason = "MOD" -> ArchiveReasonMOD
      [] reason = "OWNER" -> ArchiveReasonOWNER
      [] reason = "NO_ACCESS" -> ArchiveReasonNO_ACCESS
      [] reason = "KICK" -> ArchiveReasonKICK
      [] OTHER -> "ValueError"

\* member.value
ReasonValue(member) ==
    CASE member = ArchiveReasonMOD -> "MOD"
      [] member = ArchiveReasonOWNER -> "OWNER"
      [] member = ArchiveReasonNO_ACCESS -> "NO_ACCESS"
      [] member = ArchiveReasonKICK -> "KICK"
      [] OTHER -> member

PlayerEntry(user, ts) == [id |-> user, joined_at |-> ts]

\* the record built with its creator already seated
TableDataCreatorSeated(form, cap, user, ts) ==
    [system |-> form.system, infos |-> form.infos, schedule |-> form.schedule,
     created_at |-> ts, max_players |-> cap,
     players |-> <<PlayerEntry(user, ts)>>, waitlist |-> <<>>,
     creator_id |-> user,
     archive_reason |-> None, archived_at |-> None, archived_by |-> None]

TableData(form, cap, user, ts) ==
    [system |-> form.system, infos |-> form.infos, schedule |-> form.schedule,
     created_at |-> ts, max_players |-> cap,
     players |-> <<>>, waitlist |-> <<>>,
     creator_id |-> user,
     archive_reason |-> None, archived_at |-> None, archived_by |-> None]

\* dict helpers: d[k] = v, d.pop(k, None)
Put(d, k, v) == [x \in (DOMAIN d) \cup {k} |-> IF x = k THEN v ELSE d[x]]
Pop(d, k) == [x \in (DOMAIN d) \ {k} |-> d[x]]

RECURSIVE PopAll(_, _)
PopAll(d, ks) == IF ks = {} THEN d
                 ELSE LET k == CHOOSE x \in ks : TRUE IN PopAll(Pop(d, k), ks \ {k})

Range(s) == {s[i] : i \in DOMAIN s}
Ids(bucket) == {bucket[i].id : i \in DOMAIN bucket}
IdSeq(bucket) == [i \in DOMAIN bucket |-> bucket[i].id]

\* any(entry["id"] == user.id for entry in bucket)
InBucket(bucket, user) == \E i \in DOMAIN bucket : bucket[i].id = user

\* [entry for entry in bucket if entry["id"] != user.id]
RECURSIVE Without(_, _)
Without(bucket, user) ==
    IF bucket = <<>> THEN <<>>
    ELSE IF Head(bucket).id = user THEN Without(Tail(bucket), user)
         ELSE <<Head(bucket)>> \o Without(Tail(bucket), user)

\* -------------------------------------------------------------- storage
\* _read_json: rebuild the archive reason of every entry
ReadJson(file) ==
    [k \in DOMAIN file |->
        [file[k] EXCEPT !.archive_reason = IF @ # None THEN ArchiveReason(@) ELSE None]]

\* _write_json: the payload that replaces the file
WriteJson(data) ==
    [k \in DOMAIN data |->
        [data[k] EXCEPT !.archive_reason =
            IF @ \in ArchiveReasonMembers THEN ReasonValue(@) ELSE @]]

\* what a path can hold: nothing, text that is no JSON, JSON that is no
\* object, or an object of entries
NoFile == [kind |-> "missing", items |-> <<>>]
CorruptFile == [kind |-> "corrupt", items |-> <<>>]
ListFile == [kind |-> "list", items |-> <<>>]
DictFile(items) == [kind |-> "dict", items |-> items]

\* a key that the dict does not hold
Absent == "Absent"

\* the file that json.dump leaves for a payload of records
AsFile(payload) ==
    DictFile([k \in DOMAIN payload |-> [kind |-> "dict", fields |-> payload[k]]])

\* _read_json on whatever the path holds: the map, or the exception that
\* escapes at the first entry (in file order) whose archive_reason is not there
\* or is no member of ArchiveReason
LoadJson(raw) ==
    IF raw.kind # "dict"
    THEN [exc |-> None, value |-> <<>>]
    ELSE LET objects == {k \in DOMAIN raw.items : raw.items[k].kind = "dict"}
             reason(k) == raw.items[k].fields.archive_reason
             bad == {k \in objects :
                        \/ reason(k) = Absent
                        \/ reason(k) # None /\ ArchiveReason(reason(k)) = "ValueError"}
         IN IF bad = {}
            THEN [exc |-> None,
                  value |-> ReadJson([k \in objects |-> raw.items[k].fields])]
            ELSE LET first == CHOOSE k \in bad : \A x \in bad : k <= x IN
                 [exc |-> IF reason(first) = Absent THEN "KeyError" ELSE "ValueError",
                  value |-> <<>>]

\* save_tables: the active side is written with archive_reason cleared
NormalizedActive(act) ==
    [k \in DOMAIN act |-> [act[k] EXCEPT !.archive_reason = None]]

\* ------------------------------------------------- state machine (pure)
\* the waitlist branch inserting at the front
JoinTableAtFront(table_data, user, ts) ==
    IF Len(table_data.players) >= table_data.max_players
    THEN [table_data EXCEPT !.waitlist = <<PlayerEntry(user, ts)>> \o @]
    ELSE [table_data EXCEPT !.players = Append(@, PlayerEntry(user, ts))]

\* the capacity test written with > instead of >=
JoinTableOffByOne(table_data, user, ts) ==
    IF Len(table_data.players) > table_data.max_players
    THEN [table_data EXCEPT !.waitlist = Append(@, PlayerEntry(user, ts))]
    ELSE [table_data EXCEPT !.players = Append(@, PlayerEntry(user, ts))]

\* the join that stamps the table as created at the time of the join
JoinTableRestampsCreated(table_data, user, ts) ==
    IF Len(table_data.players) >= table_data.max_players
    THEN [table_data EXCEPT !.waitlist = Append(@, PlayerEntry(user, ts)),
                            !.created_at = ts]
    ELSE [table_data EXCEPT !.players = Append(@, PlayerEntry(user, ts)),
                            !.created_at = ts]

\* join_callback, the branch taken once the actor is in neither list
JoinTable(table_data, user, ts) ==
    IF Len(table_data.players) >= table_data.max_players
    THEN [table_data EXCEPT !.waitlist = Append(@, PlayerEntry(user, ts))]
    ELSE [table_data EXCEPT !.players = Append(@, PlayerEntry(user, ts))]

\* the roster test looking at the first seat only
AlreadySignedUpFirstOnly(table_data, user) ==
    table_data.players # <<>> /\ table_data.players[1].id = user

\* join_callback: any(entry["id"] == user.id for entry in players)
AlreadySignedUp(table_data, user) == InBucket(table_data.players, user)

\* the waitlist test repeating the roster test
AlreadyOnWaitlistCopyPaste(table_data, user) == InBucket(table_data.players, user)

\* join_callback: any(entry["id"] == user.id for entry in waitlist)
AlreadyOnWaitlist(table_data, user) == InBucket(table_data.waitlist, user)

\* the promotion taking waitlist.pop() instead of waitlist.pop(0)
LeavePlayersPopLast(table_data, user) ==
    LET rest == Without(table_data.players, user)
        n == Len(table_data.waitlist)
    IN IF table_data.waitlist # <<>>
       THEN [table_data EXCEPT !.players = Append(rest, table_data.waitlist[n]),
                               !.waitlist = SubSeq(table_data.waitlist, 1, n - 1)]
       ELSE [table_data EXCEPT !.players = rest]

\* the leave that frees the seat and promotes nobody
LeavePlayersNoPromotion(table_data, user) ==
    [table_data EXCEPT !.players = Without(table_data.players, user)]

\* leave_callback, actor in players: remove, then promote waitlist.pop(0)
LeavePlayers(table_data, user) ==
    LET rest == Without(table_data.players, user) IN
    IF table_data.waitlist # <<>>
    THEN [table_data EXCEPT !.players = Append(rest, Head(table_data.waitlist)),
                            !.waitlist = Tail(table_data.waitlist)]
    ELSE [table_data EXCEPT !.players = rest]

\* the waitlist branch dropping the head instead of the actor's entry
LeaveWaitlistPopHead(table_data, user) ==
    [table_data EXCEPT !.waitlist = Tail(@)]

\* leave_callback, actor in waitlist only
LeaveWaitlist(table_data, user) ==
    [table_data EXCEPT !.waitlist = Without(@, user)]

\* list.sort(key=joined_at): stable, ascending
RECURSIVE InsertByJoinedAt(_, _)
InsertByJoinedAt(sorted, e) ==
    IF sorted = <<>> THEN <<e>>
    ELSE IF Head(sorted).joined_at <= e.joined_at
         THEN <<Head(sorted)>> \o InsertByJoinedAt(Tail(sorted), e)
         ELSE <<e>> \o sorted

RECURSIVE SortByJoinedAt(_)
SortByJoinedAt(s) ==
    IF s = <<>> THEN <<>>
    ELSE InsertByJoinedAt(SortByJoinedAt(SubSeq(s, 1, Len(s) - 1)), s[Len(s)])

\* the demoted entries collected in roster order instead of pop order
MovedToWaitlistRosterOrder(players, cap) ==
    IF Len(players) > cap
    THEN SubSeq(players, cap + 1, Len(players))
    ELSE <<>>

\* players.pop() until len(players) <= max_players_int, in pop order
MovedToWaitlist(players, cap) ==
    IF Len(players) > cap
    THEN [i \in 1..(Len(players) - cap) |-> players[Len(players) + 1 - i]]
    ELSE <<>>

\* the edit appending the demoted entries without the sort
EditTableNoSort(table_data, form, cap) ==
    LET edited == [table_data EXCEPT !.system = form.system,
                                     !.schedule = form.schedule,
                                     !.infos = form.infos,
                                     !.max_players = cap]
    IN IF Len(table_data.players) > cap
       THEN [edited EXCEPT
                !.players = SubSeq(table_data.players, 1, cap),
                !.waitlist = table_data.waitlist
                                 \o MovedToWaitlist(table_data.players, cap)]
       ELSE edited

\* the edit filling a freed seat from the head of the waitlist, as a leave does
EditTablePromotes(table_data, form, cap) ==
    LET edited == [table_data EXCEPT !.system = form.system,
                                     !.schedule = form.schedule,
                                     !.infos = form.infos,
                                     !.max_players = cap]
    IN IF Len(table_data.players) > cap
       THEN [edited EXCEPT
                !.players = SubSeq(table_data.players, 1, cap),
                !.waitlist = SortByJoinedAt(table_data.waitlist
                                 \o MovedToWaitlist(table_data.players, cap))]
       ELSE IF Len(table_data.players) < cap /\ table_data.waitlist # <<>>
       THEN [edited EXCEPT !.players = Append(@, Head(table_data.waitlist)),
                           !.waitlist = Tail(@)]
       ELSE edited

\* EditTableModal.on_submit, after validation
EditTable(table_data, form, cap) ==
    LET edited == [table_data EXCEPT !.system = form.system,
                                     !.schedule = form.schedule,
                                     !.infos = form.infos,
                                     !.max_players = cap]
    IN IF Len(table_data.players) > cap
       THEN [edited EXCEPT
                !.players = SubSeq(table_data.players, 1, cap),
                !.waitlist = SortByJoinedAt(table_data.waitlist
                                 \o MovedToWaitlist(table_data.players, cap))]
       ELSE edited

\* archive_tables: pop every requested id that is active into the archive
RECURSIVE ArchiveInto(_, _, _, _)
ArchiveInto(act, arc, ids, reason) ==
    IF ids = {} THEN arc
    ELSE LET k == CHOOSE x \in ids : TRUE IN
         IF k \in DOMAIN act
         THEN ArchiveInto(act, Put(arc, k, [act[k] EXCEPT !.archive_reason = reason]),
                          ids \ {k}, reason)
         ELSE ArchiveInto(act, arc, ids \ {k}, reason)

\* the permission test dropped
ArchiveAllowedAnyone(table_data, user, has_permission) == TRUE

\* select_callback: the creator, or an actor resolved to manage_messages
ArchiveAllowed(table_data, user, has_permission) ==
    user = table_data.creator_id \/ has_permission

\* select_callback: OWNER for the creator, MOD otherwise
ArchiveReasonFor(table_data, user) ==
    IF user # table_data.creator_id THEN ArchiveReasonMOD ELSE ArchiveReasonOWNER

\* the loop also taking an id it finds in the archive, stamping it again
RECURSIVE ArchiveTablesRestamp(_, _, _, _)
ArchiveTablesRestamp(act, arc, table_ids, reason) ==
    IF table_ids = {}
    THEN [active_tables |-> act, archived_tables |-> arc, archived_count |-> 0]
    ELSE LET table_id == CHOOSE x \in table_ids : TRUE
             rest == table_ids \ {table_id}
         IN IF table_id \notin (DOMAIN act) \cup (DOMAIN arc)
            THEN ArchiveTablesRestamp(act, arc, rest, reason)
            ELSE LET found == IF table_id \in DOMAIN act THEN act[table_id]
                              ELSE arc[table_id]
                     record == [found EXCEPT !.archive_reason = reason]
                     out == ArchiveTablesRestamp(Pop(act, table_id),
                                Put(arc, table_id, record), rest, reason)
                 IN [out EXCEPT !.archived_count = @ + 1]

\* the count taken before the test for None, so that skipped ids count too
RECURSIVE ArchiveTablesCountsAll(_, _, _, _)
ArchiveTablesCountsAll(act, arc, table_ids, reason) ==
    IF table_ids = {}
    THEN [active_tables |-> act, archived_tables |-> arc, archived_count |-> 0]
    ELSE LET table_id == CHOOSE x \in table_ids : TRUE
             rest == table_ids \ {table_id}
             out == IF table_id \notin DOMAIN act
                    THEN ArchiveTablesCountsAll(act, arc, rest, reason)
                    ELSE ArchiveTablesCountsAll(Pop(act, table_id),
                             Put(arc, table_id,
                                 [act[table_id] EXCEPT !.archive_reason = reason]),
                             rest, reason)
         IN [out EXCEPT !.archived_count = @ + 1]

\* archive_tables: the loop over table_ids, with its count
RECURSIVE ArchiveTables(_, _, _, _)
ArchiveTables(act, arc, table_ids, reason) ==
    IF table_ids = {}
    THEN [active_tables |-> act, archived_tables |-> arc, archived_count |-> 0]
    ELSE LET table_id == CHOOSE x \in table_ids : TRUE
             rest == table_ids \ {table_id}
         IN IF table_id \notin DOMAIN act
            THEN ArchiveTables(act, arc, rest, reason)
            ELSE LET record == [act[table_id] EXCEPT !.archive_reason = reason]
                     out == ArchiveTables(Pop(act, table_id),
                                          Put(arc, table_id, record), rest, reason)
                 IN [out EXCEPT !.archived_count = @ + 1]

\* ------------------------------------------------------------------ state
VARIABLES
    active,     \* content of data/tables_active.json: table id -> record
    archived,   \* content of data/tables_archived.json
    now,        \* datetime.now(timezone.utc), non-decreasing
    nextId,     \* the next fresh uuid4
    ops,        \* the number of handler invocations so far
    job,        \* per worker: the handler in flight, its position and its copies
    overlaps,   \* the number of invocations that began while another was in flight
    overlap,    \* history: which handlers have ever been in flight together
    joinlog,    \* history per table: the joins acknowledged since creation
    order,      \* history per table: the current members in the order they joined
    last,       \* history: the handler that ran last without interleaving
    temp,       \* the temporary file of the write in progress, when there is one
    user_rate_limits,   \* utils._user_rate_limits: user id -> admitted call times
    guild_rate_limits,  \* utils._guild_rate_limits: guild id -> admitted call times
    calls,      \* history: every rate-limit check made, with what it returned
    config_file,                     \* what is stored at config.CONFIG_FILE
    user_command_rate_limit_cache,   \* config._user_command_rate_limit_cache
    guild_command_rate_limit_cache   \* config._guild_command_rate_limit_cache

vars == <<active, archived, now, nextId, ops, job, overlaps, overlap, joinlog,
          order, last, temp, user_rate_limits, guild_rate_limits, calls,
          config_file, user_command_rate_limit_cache, guild_command_rate_limit_cache>>

\* the configuration file and the two caches filled from it
settings == <<config_file, user_command_rate_limit_cache, guild_command_rate_limit_cache>>

\* what the handlers of the record store never touch
limiter == <<user_rate_limits, guild_rate_limits, calls, settings>>

TableIds == 1..MaxTables

Idle == [pc |-> "idle", op |-> "none", table |-> 0, user |-> 0,
         act |-> <<>>, arc |-> <<>>, resp |-> "none"]

\* the module-level dicts of utils.py at import: {} and {}
LimiterStart ==
    /\ user_rate_limits = <<>>
    /\ guild_rate_limits = <<>>
    /\ calls = <<>>

\* no configuration file, and the caches at import: None and None (a cache is
\* the empty sequence for None, else the sequence of the one cached tuple)
SettingsStart ==
    /\ config_file = [kind |-> "missing"]
    /\ user_command_rate_limit_cache = <<>>
    /\ guild_command_rate_limit_cache = <<>>

\* the request of a handler (for archive_tables, table is the set of requested
\* ids), whether the actor was resolved to manage_messages, the two maps it
\* loaded, the entries its edit demoted (in pop order) and its reply; for a
\* leave that directly follows the same actor's accepted join on the same
\* table, pre is the active map that join loaded
NoHandler == [op |-> "none", table |-> 0, user |-> 0, has_permission |-> FALSE,
              act |-> <<>>, arc |-> <<>>, moved |-> <<>>, resp |-> "none",
              pre |-> <<>>, max_players_int |-> 0, archived_count |-> 0,
              reason |-> None]

NoLog == [created |-> FALSE, ok |-> TRUE, seq |-> <<>>]
Poisoned == [created |-> TRUE, ok |-> FALSE, seq |-> <<>>]

Init ==
    /\ active = <<>>
    /\ archived = <<>>
    /\ now = 0
    /\ nextId = 1
    /\ ops = 0
    /\ job = [w \in Workers |-> Idle]
    /\ overlaps = 0
    /\ overlap = "none"
    /\ joinlog = [t \in TableIds |-> NoLog]
    /\ order = [t \in TableIds |-> <<>>]
    /\ last = NoHandler
    /\ temp = NoFile
    /\ LimiterStart
    /\ SettingsStart

AllIdle == \A w \in Workers : job[w].pc = "idle"

\* datetime.now(timezone.utc): a reading never earlier than the last one
ClockReadings == {ts \in {now, now + 1} : ts <= MaxClock}

\* ---------------------------------------------------- history bookkeeping
SingleTableOps == {"join", "leave", "edit", "archive"}

\* how two handlers in flight together relate: a create next to an operation
\* on another table, two operations on one table, or anything else
PairKind(op1, t1, op2, t2) ==
    IF /\ t1 # t2
       /\ \/ (op1 = "create" /\ op2 \in SingleTableOps)
          \/ (op2 = "create" /\ op1 \in SingleTableOps)
    THEN "create"
    ELSE IF op1 \in SingleTableOps /\ op2 \in SingleTableOps /\ t1 = t2
    THEN "same"
    ELSE "other"

InFlight(w) == {v \in Workers \ {w} : job[v].pc # "idle"}

OverlapAfter(w, op, t) ==
    LET kinds == {PairKind(op, t, job[v].op, job[v].table) : v \in InFlight(w)} IN
    IF kinds = {} THEN overlap
    ELSE IF overlap = "none" /\ Cardinality(kinds) = 1 THEN CHOOSE k \in kinds : TRUE
    ELSE IF kinds = {overlap} THEN overlap
    ELSE "other"

PoisonLog(ids) == [t \in TableIds |-> IF t \in ids THEN Poisoned ELSE joinlog[t]]

\* ------------------------------------------------------- handler skeleton
\* load_tables, first half: _read_json(ACTIVE_DATA_FILE)
Begin(w, op, t, u) ==
    /\ job[w].pc = "idle"
    /\ ops < MaxOps
    /\ \A v \in Workers : v < w => job[v].pc # "idle"
    /\ InFlight(w) # {} => overlaps < MaxOverlaps
    /\ (InFlight(w) # {} \/ overlaps > 0) => ops < MaxRacingOps
    /\ overlaps' = IF InFlight(w) # {} THEN overlaps + 1 ELSE overlaps
    /\ job' = [job EXCEPT ![w] = [pc |-> "load_archived", op |-> op, table |-> t,
                                  user |-> u, act |-> ReadJson(active),
                                  arc |-> <<>>, resp |-> "none"]]
    /\ overlap' = OverlapAfter(w, op, t)
    /\ ops' = ops + 1
    /\ UNCHANGED <<active, archived, now, joinlog, order, last, temp, limiter>>

\* the handler returns without calling save_tables
Reject(w, msg) ==
    /\ job' = [job EXCEPT ![w] = [@ EXCEPT !.pc = "respond", !.act = <<>>, !.resp = msg]]
    /\ UNCHANGED <<active, archived, now, nextId, ops, overlaps, overlap, joinlog, order, last, temp, limiter>>

\* as Accept, for the handlers that read the clock
AcceptAt(w, ts, act, arc, msg, touched) ==
    /\ job' = [job EXCEPT ![w] = [@ EXCEPT !.pc = "save_active", !.act = act,
                                           !.arc = arc, !.resp = msg]]
    /\ joinlog' = PoisonLog(touched)
    /\ now' = ts
    /\ UNCHANGED <<active, archived, nextId, ops, overlaps, overlap, order, last, temp, limiter>>

\* the handler goes on to save_tables(act, arc)
Accept(w, act, arc, msg, touched) ==
    /\ job' = [job EXCEPT ![w] = [@ EXCEPT !.pc = "save_active", !.act = act,
                                           !.arc = arc, !.resp = msg]]
    /\ joinlog' = PoisonLog(touched)
    /\ UNCHANGED <<active, archived, now, nextId, ops, overlaps, overlap, order, last, temp, limiter>>

\* save_tables, first half: _write_json(ACTIVE_DATA_FILE, normalized_active)
WriteActive(w) ==
    LET j == job[w] IN
    /\ j.pc = "save_active"
    /\ active' = WriteJson(NormalizedActive(j.act))
    /\ job' = [job EXCEPT ![w] = [@ EXCEPT !.pc = "save_archived", !.act = <<>>]]
    /\ joinlog' =
         IF j.op = "create"
         THEN [joinlog EXCEPT ![j.table] = [created |-> TRUE, ok |-> TRUE, seq |-> <<>>]]
         ELSE IF j.op = "join" /\ joinlog[j.table].ok
         THEN [joinlog EXCEPT ![j.table] =
                 IF j.user \in Range(@.seq) THEN Poisoned
                 ELSE [@ EXCEPT !.seq = Append(@, j.user)]]
         ELSE joinlog
    /\ UNCHANGED <<archived, now, nextId, ops, overlaps, overlap, order, last, temp, limiter>>

\* save_tables, second half: _write_json(ARCHIVED_DATA_FILE, archived)
WriteArchived(w) ==
    LET j == job[w] IN
    /\ j.pc = "save_archived"
    /\ archived' = WriteJson(j.arc)
    /\ job' = [job EXCEPT ![w] = [@ EXCEPT !.pc = "respond", !.arc = <<>>]]
    /\ UNCHANGED <<active, now, nextId, ops, overlaps, overlap, joinlog, order, last, temp, limiter>>

\* the awaited replies, card updates and direct messages; then the handler ends
Respond(w) ==
    /\ job[w].pc = "respond"
    /\ job' = [job EXCEPT ![w] = Idle]
    /\ UNCHANGED <<active, archived, now, nextId, ops, overlaps, overlap, joinlog, order, last, temp, limiter>>

Loaded(w, op) == job[w].pc = "load_archived" /\ job[w].op = op

\* ------------------------------------------------ SignupView.join_callback
JoinStart(w, t, u) == Begin(w, "join", t, u) /\ UNCHANGED nextId

JoinLoaded(w) ==
    LET j == job[w]
        arc == ReadJson(archived)
    IN /\ Loaded(w, "join")
       /\ IF j.table \notin DOMAIN j.act
          THEN Reject(w, "This table no longer exists.")
          ELSE LET table_data == j.act[j.table] IN
               IF AlreadySignedUp(table_data, j.user)
               THEN Reject(w, "You are already signed up!")
               ELSE IF AlreadyOnWaitlist(table_data, j.user)
               THEN Reject(w, "You are already on the waitlist!")
               ELSE \E ts \in ClockReadings :
                      AcceptAt(w, ts, Put(j.act, j.table, JoinTable(table_data, j.user, ts)),
                               arc,
                               IF Len(table_data.players) >= table_data.max_players
                               THEN "Waitlisted" ELSE "Seated", {})

\* ----------------------------------------------- SignupView.leave_callback
LeaveStart(w, t, u) == Begin(w, "leave", t, u) /\ UNCHANGED nextId

LeaveLoaded(w) ==
    LET j == job[w]
        arc == ReadJson(archived)
    IN /\ Loaded(w, "leave")
       /\ IF j.table \notin DOMAIN j.act
          THEN Reject(w, "You weren't signed up in the first place.")
          ELSE LET table_data == j.act[j.table] IN
               IF InBucket(table_data.players, j.user)
               THEN Accept(w, Put(j.act, j.table, LeavePlayers(table_data, j.user)), arc,
                           IF table_data.waitlist # <<>> THEN "LeftPromoted" ELSE "Left",
                           {j.table})
               ELSE IF InBucket(table_data.waitlist, j.user)
               THEN Accept(w, Put(j.act, j.table, LeaveWaitlist(table_data, j.user)), arc,
                           "RemovedFromWaitlist", {j.table})
               ELSE Reject(w, "You weren't signed up in the first place.")

\* ------------------------------------------------ NewTableModal.on_submit
\* table_id = str(uuid.uuid4()), then load_tables
CreateStart(w, u) ==
    /\ nextId <= MaxTables
    /\ Begin(w, "create", nextId, u)
    /\ nextId' = nextId + 1

\* the record is built, the signup card is posted (or not), then save_tables
CreateLoaded(w) ==
    LET j == job[w]
        arc == ReadJson(archived)
    IN /\ Loaded(w, "create")
       /\ \E form \in Forms, cap \in Caps, posted \in BOOLEAN, ts \in ClockReadings :
            IF ~posted
            THEN Reject(w, "PostFailed") /\ ts = now
            ELSE AcceptAt(w, ts, Put(j.act, j.table, TableData(form, cap, j.user, ts)), arc,
                          "Created", {})

\* ----------------------------------------------- EditTableModal.on_submit
EditStart(w, t, u) == Begin(w, "edit", t, u) /\ UNCHANGED nextId

EditLoaded(w) ==
    LET j == job[w]
        arc == ReadJson(archived)
    IN /\ Loaded(w, "edit")
       /\ IF j.table \notin DOMAIN j.act
          THEN Reject(w, "This table no longer exists or was archived.")
          ELSE \E form \in Forms, cap \in Caps :
                 Accept(w, Put(j.act, j.table, EditTable(j.act[j.table], form, cap)), arc,
                        "Updated", {j.table})

\* --------------------------------------------- ArchiveView.select_callback
ArchiveStart(w, t, u) == Begin(w, "archive", t, u) /\ UNCHANGED nextId

ArchiveLoaded(w) ==
    LET j == job[w]
        arc == ReadJson(archived)
    IN /\ Loaded(w, "archive")
       /\ IF j.table \notin DOMAIN j.act
          THEN Reject(w, "This table cannot be archived.")
          ELSE LET table_data == j.act[j.table] IN
               \E has_permission \in BOOLEAN :
                 IF j.user # table_data.creator_id /\ ~has_permission
                 THEN Reject(w, "You are not allowed to archive this table.")
                 ELSE LET reason == IF j.user # table_data.creator_id
                                    THEN ArchiveReasonMOD ELSE ArchiveReasonOWNER
                      IN Accept(w, Pop(j.act, j.table),
                                Put(arc, j.table, [table_data EXCEPT !.archive_reason = reason]),
                                "Archived", {j.table})

\* ------------------------------------------------- storage.archive_tables
BulkArchiveStart(w) == Begin(w, "bulk", 0, 0) /\ UNCHANGED nextId

BulkArchiveLoaded(w) ==
    LET j == job[w]
        arc == ReadJson(archived)
    IN /\ Loaded(w, "bulk")
       /\ \E ids \in SUBSET (1..(nextId - 1)),
             reason \in {ArchiveReasonKICK, ArchiveReasonNO_ACCESS} :
            LET moved == ids \cap DOMAIN j.act IN
            IF moved = {}
            THEN Reject(w, "archived 0")
            ELSE Accept(w, PopAll(j.act, moved), ArchiveInto(j.act, arc, ids, reason),
                        "archived n", moved)

\* ------------------------------------------------------------------- spec
Next ==
    \/ \E w \in Workers :
         \/ \E u \in Users : CreateStart(w, u)
         \/ \E t \in 1..(nextId - 1), u \in Users :
              \/ JoinStart(w, t, u)
              \/ LeaveStart(w, t, u)
              \/ EditStart(w, t, u)
              \/ ArchiveStart(w, t, u)
         \/ BulkArchiveStart(w)
         \/ JoinLoaded(w)
         \/ LeaveLoaded(w)
         \/ CreateLoaded(w)
         \/ EditLoaded(w)
         \/ ArchiveLoaded(w)
         \/ BulkArchiveLoaded(w)
         \/ WriteActive(w)
         \/ WriteArchived(w)
         \/ Respond(w)

Spec == Init /\ [][Next]_vars

TypeOK ==
    /\ DOMAIN active \subseteq TableIds
    /\ DOMAIN archived \subseteq TableIds
    /\ now \in 0..MaxClock
    /\ nextId \in 1..(MaxTables + 1)
    /\ overlap \in {"none", "create", "same", "other"}
    /\ overlaps \in 0..MaxOverlaps
    /\ ops \in 0..MaxOps

\* --------------------------------------------------- handlers run serially
\* The same handlers when no other handler runs between a handler's
\* load_tables and its save_tables: one step per invocation.

\* datetime.now(timezone.utc), as read by a handler of a serial run
Readings == {ts \in {now, now + 1} : ts <= MaxTime}

\* save_tables(active, archived)
SaveTables(act, arc) ==
    /\ active' = WriteJson(NormalizedActive(act))
    /\ archived' = WriteJson(arc)

\* one invocation: what it was asked (the capacity typed into a modal, 0 for
\* a handler without one; the reason handed to archive_tables), what it
\* loaded, demoted, replied and returned
RanRecord(op, t, u, has_permission, act, arc, moved, resp, max_players_int, archived_count, reason) ==
    /\ last' = [op |-> op, table |-> t, user |-> u,
                has_permission |-> has_permission,
                act |-> act, arc |-> arc, moved |-> moved, resp |-> resp,
                pre |-> IF /\ op = "leave" /\ last.op = "join"
                           /\ last.table = t /\ last.user = u
                           /\ last.resp \in {"Seated", "Waitlisted"}
                        THEN last.act ELSE <<>>,
                max_players_int |-> max_players_int,
                archived_count |-> archived_count,
                reason |-> reason]
    /\ UNCHANGED <<ops, job, overlaps, overlap, joinlog, temp, limiter>>

RanSubmitted(op, t, u, has_permission, act, arc, moved, resp, max_players_int) ==
    RanRecord(op, t, u, has_permission, act, arc, moved, resp, max_players_int, 0, None)

RanResolved(op, t, u, has_permission, act, arc, moved, resp) ==
    RanSubmitted(op, t, u, has_permission, act, arc, moved, resp, 0)

Ran(op, t, u, act, arc, moved, resp) ==
    RanResolved(op, t, u, FALSE, act, arc, moved, resp)

\* the handler replies and returns before save_tables
Returns(op, t, u, act, arc, resp) ==
    /\ Ran(op, t, u, act, arc, <<>>, resp)
    /\ UNCHANGED <<active, archived, now, nextId, order>>

\* SignupView.join_callback
join_callback(t, u) ==
    LET act == ReadJson(active)
        arc == ReadJson(archived)
    IN IF t \notin DOMAIN act
       THEN Returns("join", t, u, act, arc, "This table no longer exists.")
       ELSE LET table_data == act[t] IN
            IF AlreadySignedUp(table_data, u)
            THEN Returns("join", t, u, act, arc, "You are already signed up!")
            ELSE IF AlreadyOnWaitlist(table_data, u)
            THEN Returns("join", t, u, act, arc, "You are already on the waitlist!")
            ELSE \E ts \in Readings :
                   /\ SaveTables(Put(act, t, JoinTable(table_data, u, ts)), arc)
                   /\ now' = ts
                   /\ order' = [order EXCEPT ![t] = Append(@, u)]
                   /\ Ran("join", t, u, act, arc, <<>>,
                          IF Len(table_data.players) >= table_data.max_players
                          THEN "Waitlisted" ELSE "Seated")
                   /\ UNCHANGED nextId

\* SignupView.leave_callback
leave_callback(t, u) ==
    LET act == ReadJson(active)
        arc == ReadJson(archived)
        gone == [order EXCEPT ![t] = SelectSeq(@, LAMBDA x : x # u)]
    IN IF t \notin DOMAIN act
       THEN Returns("leave", t, u, act, arc, "You weren't signed up in the first place.")
       ELSE LET table_data == act[t] IN
            IF InBucket(table_data.players, u)
            THEN /\ SaveTables(Put(act, t, LeavePlayers(table_data, u)), arc)
                 /\ order' = gone
                 /\ Ran("leave", t, u, act, arc, <<>>,
                        IF table_data.waitlist # <<>> THEN "LeftPromoted" ELSE "Left")
                 /\ UNCHANGED <<now, nextId>>
            ELSE IF InBucket(table_data.waitlist, u)
            THEN /\ SaveTables(Put(act, t, LeaveWaitlist(table_data, u)), arc)
                 /\ order' = gone
                 /\ Ran("leave", t, u, act, arc, <<>>, "RemovedFromWaitlist")
                 /\ UNCHANGED <<now, nextId>>
            ELSE Returns("leave", t, u, act, arc, "You weren't signed up in the first place.")

\* NewTableModal.on_submit: a fresh id, the card posted or not, then the save
NewTable_on_submit(u) ==
    LET act == ReadJson(active)
        arc == ReadJson(archived)
        table_id == nextId
    IN /\ nextId <= MaxSerialTables
       /\ nextId' = nextId + 1
       /\ \E form \in Forms, max_players_int \in Seats, posted \in BOOLEAN :
            IF ~posted
            THEN /\ RanSubmitted("create", table_id, u, FALSE, act, arc, <<>>, "PostFailed",
                                 max_players_int)
                 /\ UNCHANGED <<active, archived, now, order>>
            ELSE \E ts \in Readings :
                   /\ SaveTables(Put(act, table_id,
                                     TableData(form, max_players_int, u, ts)), arc)
                   /\ now' = ts
                   /\ RanSubmitted("create", table_id, u, FALSE, act, arc, <<>>, "Created",
                                   max_players_int)
                   /\ UNCHANGED order

\* EditTableModal.on_submit
EditTable_on_submit(t, u) ==
    LET act == ReadJson(active)
        arc == ReadJson(archived)
    IN IF t \notin DOMAIN act
       THEN Returns("edit", t, u, act, arc, "This table no longer exists or was archived.")
       ELSE \E form \in Forms, max_players_int \in Seats :
              /\ SaveTables(Put(act, t, EditTable(act[t], form, max_players_int)), arc)
              /\ Ran("edit", t, u, act, arc,
                     MovedToWaitlist(act[t].players, max_players_int), "Updated")
              /\ UNCHANGED <<now, nextId, order>>

\* ArchiveView.select_callback
select_callback(t, u) ==
    LET act == ReadJson(active)
        arc == ReadJson(archived)
    IN IF t \notin DOMAIN act
       THEN Returns("archive", t, u, act, arc, "This table cannot be archived.")
       ELSE \E has_permission \in BOOLEAN :
              IF ~ArchiveAllowed(act[t], u, has_permission)
              THEN /\ RanResolved("archive", t, u, has_permission, act, arc, <<>>,
                                  "You are not allowed to archive this table.")
                   /\ UNCHANGED <<active, archived, now, nextId, order>>
              ELSE /\ SaveTables(Pop(act, t),
                                 Put(arc, t, [act[t] EXCEPT !.archive_reason =
                                                 ArchiveReasonFor(act[t], u)]))
                   /\ RanResolved("archive", t, u, has_permission, act, arc, <<>>,
                                  "Archived")
                   /\ UNCHANGED <<now, nextId, order>>

\* storage.archive_tables(table_ids, reason), called by `caller` for `key`
\* (the guild or channel whose tables are removed; 0 when called directly)
archive_tables_for(caller, key, table_ids, reason) ==
    LET act == ReadJson(active)
        arc == ReadJson(archived)
        out == ArchiveTables(act, arc, table_ids, reason)
        returned(resp) == RanRecord(caller, table_ids, key, FALSE, act, arc, <<>>, resp,
                                    0, out.archived_count, reason)
    IN IF out.archived_count = 0
       THEN /\ returned("archived 0")
            /\ UNCHANGED <<active, archived, now, nextId, order>>
       ELSE /\ SaveTables(out.active_tables, out.archived_tables)
            /\ returned("archived n")
            /\ UNCHANGED <<now, nextId, order>>

\* storage.archive_tables(table_ids, reason)
archive_tables(table_ids, reason) == archive_tables_for("bulk", 0, table_ids, reason)

SerialNext ==
    \/ \E u \in Users : NewTable_on_submit(u)
    \/ \E t \in 1..(nextId - 1), u \in Users :
         \/ join_callback(t, u)
         \/ leave_callback(t, u)
         \/ EditTable_on_submit(t, u)
         \/ select_callback(t, u)
    \/ \E table_ids \in SUBSET (1..(nextId - 1)),
          reason \in {ArchiveReasonKICK, ArchiveReasonNO_ACCESS} :
         archive_tables(table_ids, reason)

SerialSpec == Init /\ [][SerialNext]_vars

\* ----------------------------------------------------------------- claims
Members(rec) == Ids(rec.players) \cup Ids(rec.waitlist)

\* every join acknowledged on a table that saw no leave, edit or archive since
\* its creation is in the table's persisted record
AckedJoinsPersisted ==
    \A t \in DOMAIN active :
        joinlog[t].ok => Range(joinlog[t].seq) \subseteq Members(active[t])

\* every table whose creation was saved is in one of the two partitions
CreatedTablesPersisted ==
    \A t \in TableIds :
        joinlog[t].created => t \in (DOMAIN active) \cup (DOMAIN archived)

\* C1: two mutating operations on one table that run concurrently leave the
\* persisted result of some serial order; in particular, once two concurrent
\* joins by distinct actors on a table with free seats have both completed,
\* both actors are in the persisted record (no update is lost).
C1_NoLostUpdateSameTable ==
    (AllIdle /\ overlap \in {"none", "same"}) => AckedJoinsPersisted

\* C2: when a create interleaves with a join, leave, edit or archive on a
\* different table, both effects are in the store once both have completed:
\* the new table is persisted and the other table's change is not overwritten.
C2_CreateKeepsOtherTables ==
    (AllIdle /\ overlap \in {"none", "create"})
        => (AckedJoinsPersisted /\ CreatedTablesPersisted)

\* C3: once a table id is in the archived partition it never again appears in
\* the active partition, and its roster, waitlist, capacity and text fields
\* never change, under any interleaving of the operations.
C3_ArchivedIsFinal ==
    [][\A t \in DOMAIN archived :
          /\ t \notin DOMAIN active'
          /\ t \in DOMAIN archived'
          /\ archived'[t].players = archived[t].players
          /\ archived'[t].waitlist = archived[t].waitlist
          /\ archived'[t].max_players = archived[t].max_players
          /\ archived'[t].system = archived[t].system
          /\ archived'[t].schedule = archived[t].schedule
          /\ archived'[t].infos = archived[t].infos]_vars

\* C4: in every persisted state every active table has
\* len(players) <= max_players.
C4_RosterWithinCapacity ==
    \A t \in DOMAIN active : Len(active[t].players) <= active[t].max_players

\* an edit lowered the capacity of a table and demoted to the waitlist
C4_Witness ==
    \E w \in Workers :
        /\ job[w].op = "edit" /\ job[w].pc = "respond" /\ job[w].resp = "Updated"
        /\ job[w].table \in DOMAIN active
        /\ Len(active[job[w].table].players) = active[job[w].table].max_players
        /\ active[job[w].table].waitlist # <<>>

\* C5: in every persisted state each user id occurs at most once in the
\* concatenation of a table's roster and waitlist.
C5_MembersUnique ==
    \A t \in DOMAIN active :
        LET both == active[t].players \o active[t].waitlist IN
        \A i, k \in DOMAIN both : both[i].id = both[k].id => i = k

\* a second join by a waitlisted actor was turned away
C5_Witness ==
    \E w \in Workers :
        /\ job[w].op = "join" /\ job[w].pc = "respond"
        /\ job[w].resp = "You are already on the waitlist!"
        /\ job[w].table \in DOMAIN active
        /\ job[w].user \in Ids(active[job[w].table].waitlist)

\* the step in which worker w's handler of kind op replaces the active file
Saved(w, op) ==
    /\ job[w].op = op
    /\ job[w].pc = "save_active"
    /\ job'[w].pc = "save_archived"

\* the step in which worker w's handler decides between saving and returning
Decided(w) ==
    /\ job[w].pc = "load_archived"
    /\ job'[w].pc # "load_archived"

NotUser(u, bucket) == SelectSeq(bucket, LAMBDA e : e.id # u)
RemoveAt(s, i) == [k \in 1..(Len(s) - 1) |-> IF k < i THEN s[k] ELSE s[k + 1]]

\* C6: a join on an active table by an actor in neither list adds exactly one
\* entry for that actor, at the end of the roster (Seated) if
\* len(roster) < capacity before the join, otherwise at the end of the
\* waitlist (Waitlisted); no other entry is added, removed or reordered.
C6_JoinAddsOneEntry ==
    [][\A w \in Workers :
         (Saved(w, "join") /\ overlap = "none") =>
            LET t == job[w].table
                u == job[w].user
            IN /\ t \in DOMAIN active
               /\ t \in DOMAIN active'
               /\ u \notin Members(active[t])
               /\ IF Len(active[t].players) < active[t].max_players
                  THEN /\ job[w].resp = "Seated"
                       /\ Len(active'[t].players) = Len(active[t].players) + 1
                       /\ SubSeq(active'[t].players, 1, Len(active[t].players))
                            = active[t].players
                       /\ active'[t].players[Len(active'[t].players)].id = u
                       /\ active'[t].waitlist = active[t].waitlist
                  ELSE /\ job[w].resp = "Waitlisted"
                       /\ Len(active'[t].waitlist) = Len(active[t].waitlist) + 1
                       /\ SubSeq(active'[t].waitlist, 1, Len(active[t].waitlist))
                            = active[t].waitlist
                       /\ active'[t].waitlist[Len(active'[t].waitlist)].id = u
                       /\ active'[t].players = active[t].players]_vars

\* a join was answered Waitlisted behind an earlier waiter
C6_Witness ==
    \E w \in Workers :
        /\ job[w].op = "join" /\ job[w].pc = "respond" /\ job[w].resp = "Waitlisted"
        /\ overlap = "none"
        /\ job[w].table \in DOMAIN active
        /\ Len(active[job[w].table].waitlist) >= 2

PreconditionFails(w) ==
    LET t == job[w].table
        u == job[w].user
    IN \/ t \notin DOMAIN active
       \/ (job[w].op = "join" /\ u \in Members(active[t]))
       \/ (job[w].op = "leave" /\ u \notin Members(active[t]))

\* C7: a join by an actor already in the roster or the waitlist, a leave by an
\* actor in neither list, and a join or leave on a table id that is not in the
\* active partition are rejected: no save is performed and no record changes.
C7_RejectedChangesNothing ==
    [][\A w \in Workers :
         (/\ Decided(w)
          /\ overlap = "none"
          /\ job[w].op \in {"join", "leave"}
          /\ PreconditionFails(w))
         => (/\ job'[w].pc = "respond"
             /\ active' = active
             /\ archived' = archived)]_vars

\* a leave by an actor in neither list of an active table was turned away
C7_Witness ==
    \E w \in Workers :
        /\ job[w].op = "leave" /\ job[w].pc = "respond"
        /\ job[w].resp = "You weren't signed up in the first place."
        /\ overlap = "none"
        /\ job[w].table \in DOMAIN active
        /\ Members(active[job[w].table]) # {}
        /\ job[w].user \notin Members(active[job[w].table])

\* C8: after joins by n distinct actors on a freshly created table of capacity
\* c, with n > c and no other operation in between, the roster is the first c
\* actors in join order and the waitlist the remaining n - c in join order.
C8_OverflowGoesToWaitlistInOrder ==
    \A t \in DOMAIN active :
        LET c == active[t].max_players
            joins == joinlog[t].seq
        IN (overlap = "none" /\ joinlog[t].ok /\ Len(joins) > c) =>
              /\ Len(active[t].players) = c
              /\ IdSeq(active[t].players) = SubSeq(joins, 1, c)
              /\ IdSeq(active[t].waitlist) = SubSeq(joins, c + 1, Len(joins))

\* three actors joined a fresh table of capacity 1
C8_Witness ==
    \E t \in DOMAIN active :
        /\ overlap = "none" /\ joinlog[t].ok
        /\ active[t].max_players = 1
        /\ Len(joinlog[t].seq) = 3

\* C9: a leave by a roster member when the waitlist is non-empty removes that
\* member, removes exactly the waitlist entry with the earliest joined_at and
\* appends it to the end of the roster, so the roster length is unchanged
\* (capacity 1, A joins, B joins, A leaves: roster = [B], waitlist = []).
C9_LeavePromotesEarliest ==
    [][\A w \in Workers :
         (/\ Saved(w, "leave")
          /\ overlap = "none"
          /\ job[w].table \in DOMAIN active
          /\ job[w].user \in Ids(active[job[w].table].players)
          /\ active[job[w].table].waitlist # <<>>)
         => LET old == active[job[w].table]
                new == active'[job[w].table]
            IN \E i \in DOMAIN old.waitlist :
                 /\ \A k \in DOMAIN old.waitlist :
                       old.waitlist[i].joined_at <= old.waitlist[k].joined_at
                 /\ new.waitlist = RemoveAt(old.waitlist, i)
                 /\ new.players = Append(NotUser(job[w].user, old.players), old.waitlist[i])
                 /\ Len(new.players) = Len(old.players)]_vars

\* capacity 1: A (user 1) left and B (user 2) was promoted from the waitlist
C9_Witness ==
    \E w \in Workers :
        /\ job[w].op = "leave" /\ job[w].pc = "respond" /\ job[w].resp = "LeftPromoted"
        /\ job[w].user = 1
        /\ overlap = "none"
        /\ job[w].table \in DOMAIN active
        /\ active[job[w].table].max_players = 1
        /\ IdSeq(active[job[w].table].players) = <<2>>
        /\ active[job[w].table].waitlist = <<>>

\* C10: a leave by an actor who is in the waitlist removes only that actor's
\* waitlist entry: the roster is unchanged, nobody is promoted and the other
\* waitlist entries keep their relative order.
C10_LeaveWaitlistOnly ==
    [][\A w \in Workers :
         (/\ Saved(w, "leave")
          /\ overlap = "none"
          /\ job[w].table \in DOMAIN active
          /\ job[w].user \in Ids(active[job[w].table].waitlist))
         => LET old == active[job[w].table]
                new == active'[job[w].table]
            IN /\ new.players = old.players
               /\ new.waitlist = NotUser(job[w].user, old.waitlist)
               /\ Len(new.waitlist) = Len(old.waitlist) - 1]_vars

\* the second of two waiters left the waitlist and the first is still waiting
C10_Witness ==
    \E w \in Workers :
        /\ job[w].op = "leave" /\ job[w].pc = "respond"
        /\ job[w].resp = "RemovedFromWaitlist"
        /\ overlap = "none"
        /\ job[w].table \in DOMAIN active
        /\ Len(active[job[w].table].waitlist) = 1
        /\ Len(active[job[w].table].players) = active[job[w].table].max_players

\* ----------------------------------------------- claims, serial handlers
\* C11: for every reachable table state and every actor not in the table, a
\* join by that actor immediately followed by a leave by the same actor
\* restores the roster and the waitlist, as sequences of user ids, to their
\* value before the join, except when the leave promotes a waitlist entry
\* (which happens only when the waitlist was non-empty).
C11_JoinThenLeaveRestores ==
    (last.op = "leave" /\ last.pre # <<>>) =>
        LET t == last.table
            before == last.pre[t]
        IN /\ t \in DOMAIN active
           /\ last.user \notin Members(before)
           /\ IF last.resp = "LeftPromoted"
              THEN before.waitlist # <<>>
              ELSE /\ IdSeq(active[t].players) = IdSeq(before.players)
                   /\ IdSeq(active[t].waitlist) = IdSeq(before.waitlist)

\* an actor joined the waitlist behind another waiter and left again at once
C11_Witness ==
    /\ last.op = "leave" /\ last.pre # <<>>
    /\ last.resp = "RemovedFromWaitlist"
    /\ last.table \in DOMAIN active
    /\ active[last.table].waitlist # <<>>

\* the last handler was an edit that lowered the capacity below the roster
Demoting ==
    /\ last.op = "edit" /\ last.resp = "Updated"
    /\ last.table \in DOMAIN active
    /\ Len(last.act[last.table].players) > active[last.table].max_players

\* C12: an edit that lowers capacity below len(roster) moves exactly
\* len(roster) - newCapacity entries to the waitlist, and the moved entries
\* are the most recently joined ones: every demoted entry has a joined_at no
\* earlier than every entry that stays in the roster, and they are demoted in
\* most-recently-joined-first order.
C12_DemotesMostRecentlyJoined ==
    Demoting =>
        LET old == last.act[last.table]
            new == active[last.table]
        IN /\ Len(last.moved) = Len(old.players) - new.max_players
           /\ Len(new.waitlist) = Len(old.waitlist) + Len(last.moved)
           /\ \A i \in DOMAIN last.moved, k \in DOMAIN new.players :
                 last.moved[i].joined_at >= new.players[k].joined_at
           /\ \A i, k \in DOMAIN last.moved :
                 i < k => last.moved[i].joined_at >= last.moved[k].joined_at

IndexOf(s, e) == CHOOSE i \in DOMAIN s : s[i] = e

SortedByJoinedAt(s) ==
    \A i, k \in DOMAIN s : i < k => s[i].joined_at <= s[k].joined_at

\* C13: an edit that lowers capacity below len(roster) pops entries from the
\* end of the roster until len(roster) = newCapacity, reports them in pop
\* order, and sets the waitlist to the old waitlist followed by the popped
\* entries, sorted by joined_at (entries of equal joined_at keep the order of
\* that concatenation).  With capacity 3 and roster [A,B,C], joined in that
\* order at successive times, an edit to capacity 1 gives demoted = [C,B],
\* roster = [A] and waitlist = [B,C].
C13_EditPopsFromEnd ==
    Demoting =>
        LET old == last.act[last.table]
            new == active[last.table]
            n == Len(old.players)
            cat == old.waitlist \o last.moved
        IN /\ Len(new.players) = new.max_players
           /\ new.players = SubSeq(old.players, 1, new.max_players)
           /\ Len(last.moved) = n - new.max_players
           /\ \A i \in DOMAIN last.moved : last.moved[i] = old.players[n + 1 - i]
           /\ Len(new.waitlist) = Len(cat)
           /\ Range(new.waitlist) = Range(cat)
           /\ SortedByJoinedAt(new.waitlist)
           /\ \A i, k \in DOMAIN new.waitlist :
                 (i < k /\ new.waitlist[i].joined_at = new.waitlist[k].joined_at)
                    => IndexOf(cat, new.waitlist[i]) < IndexOf(cat, new.waitlist[k])
           /\ (/\ old.max_players = 3
               /\ new.max_players = 1
               /\ IdSeq(old.players) = <<1, 2, 3>>
               /\ old.players[1].joined_at < old.players[2].joined_at
               /\ old.players[2].joined_at < old.players[3].joined_at
               /\ old.waitlist = <<>>)
              => (/\ IdSeq(last.moved) = <<3, 2>>
                  /\ IdSeq(new.players) = <<1>>
                  /\ IdSeq(new.waitlist) = <<2, 3>>)

\* capacity 3, roster [1,2,3] joined at times 0, 1, 2, edited to capacity 1
C13_Witness ==
    /\ Demoting
    /\ last.act[last.table].max_players = 3
    /\ active[last.table].max_players = 1
    /\ IdSeq(last.act[last.table].players) = <<1, 2, 3>>
    /\ last.act[last.table].players[1].joined_at = 0
    /\ last.act[last.table].players[2].joined_at = 1
    /\ last.act[last.table].players[3].joined_at = 2
    /\ IdSeq(active[last.table].waitlist) = <<2, 3>>

\* C14: an edit whose new capacity is greater than or equal to len(roster)
\* leaves both the roster and the waitlist unchanged: a capacity increase
\* never promotes anyone from the waitlist, even when seats become free.
C14_EditWithRoomChangesNoList ==
    (/\ last.op = "edit" /\ last.resp = "Updated"
     /\ last.table \in DOMAIN active
     /\ Len(last.act[last.table].players) <= active[last.table].max_players)
    => (/\ active[last.table].players = last.act[last.table].players
        /\ active[last.table].waitlist = last.act[last.table].waitlist
        /\ last.moved = <<>>)

\* an edit raised the capacity of a full table with a waiter: a seat is free
\* and the waiter still waits
C14_Witness ==
    /\ last.op = "edit" /\ last.resp = "Updated"
    /\ last.table \in DOMAIN active
    /\ Len(last.act[last.table].players) = last.act[last.table].max_players
    /\ active[last.table].max_players > last.act[last.table].max_players
    /\ active[last.table].waitlist # <<>>

\* C15: in every persisted state reachable by any sequence of join, leave
\* and edit operations, with a clock that never goes back, each table's
\* waitlist is sorted by joined_at ascending.
C15_WaitlistSortedByJoinedAt ==
    \A t \in DOMAIN active : SortedByJoinedAt(active[t].waitlist)

\* an edit demoted an entry that joined before the head of the old waitlist,
\* so the sort had to move it in front
C15_Witness ==
    /\ Demoting
    /\ last.act[last.table].waitlist # <<>>
    /\ last.moved[1].joined_at < last.act[last.table].waitlist[1].joined_at
    /\ active[last.table].waitlist[1] = last.moved[1]

\* C16: wherever two entries have equal joined_at they are ordered by
\* original insertion order, the order in which they joined the table; this
\* holds for waitlist position and promotion order (the head is promoted),
\* including after an edit demotes roster entries of equal joined_at.
C16_TiesKeepInsertionOrder ==
    \A t \in DOMAIN active :
        LET waitlist == active[t].waitlist IN
        \A i, k \in DOMAIN waitlist :
            (i < k /\ waitlist[i].joined_at = waitlist[k].joined_at)
                => IndexOf(order[t], waitlist[i].id) < IndexOf(order[t], waitlist[k].id)

\* the two files hold what the last handler loaded
NothingSaved ==
    /\ ReadJson(active) = last.act
    /\ ReadJson(archived) = last.arc

\* C17: an archive request moves the record to the archived partition only
\* if the actor is the table's creator (reason OWNER) or has been resolved to
\* hold moderation authority in the table's channel (reason MOD); for any
\* other actor the request is rejected and both partitions are unchanged.
C17_ArchiveNeedsCreatorOrModerator ==
    (last.op = "archive" /\ last.table \in DOMAIN last.act) =>
        LET t == last.table
            creator == last.act[t].creator_id
        IN IF last.user = creator \/ last.has_permission
           THEN /\ last.resp = "Archived"
                /\ t \notin DOMAIN active
                /\ t \in DOMAIN archived
                /\ archived[t].archive_reason =
                      (IF last.user = creator THEN "OWNER" ELSE "MOD")
                /\ [archived[t] EXCEPT !.archive_reason = None] = last.act[t]
           ELSE /\ last.resp = "You are not allowed to archive this table."
                /\ NothingSaved

\* an actor who is neither the creator nor a moderator asked to archive a
\* table with members, and the table is still active
C17_Witness ==
    /\ last.op = "archive"
    /\ last.resp = "You are not allowed to archive this table."
    /\ last.table \in DOMAIN active
    /\ last.user # active[last.table].creator_id
    /\ ~last.has_permission
    /\ active[last.table].players # <<>>

\* C18: archiving a table id that is already archived, or otherwise absent
\* from the active partition, is rejected and changes neither partition: the
\* archived record keeps its original archive reason and contents.
C18_ArchiveOfInactiveRejected ==
    /\ (last.op = "archive" /\ last.table \notin DOMAIN last.act) =>
          /\ last.resp = "This table cannot be archived."
          /\ NothingSaved
    /\ last.op = "bulk" =>
          /\ \A t \in last.table \ DOMAIN last.act :
                /\ t \notin DOMAIN active
                /\ t \in DOMAIN last.arc =>
                      (t \in DOMAIN archived /\ ReadJson(archived)[t] = last.arc[t])
          /\ (last.table \cap DOMAIN last.act = {}) =>
                (last.resp = "archived 0" /\ NothingSaved)

\* archive_tables was asked for a table that its creator had archived
C18_Witness ==
    /\ last.op = "bulk"
    /\ last.table # {}
    /\ last.table \subseteq DOMAIN last.arc
    /\ \E t \in last.table : t \in DOMAIN archived /\ archived[t].archive_reason = "OWNER"

\* C19: every record in the archived partition carries complete archive
\* metadata: after any archive operation (user archive or bulk archive) the
\* record's archive reason, archived_at timestamp and archived_by actor are
\* all populated, and a record has archive metadata if and only if it is
\* archived.
C19_ArchivedCarriesMetadata ==
    /\ \A t \in DOMAIN archived :
          /\ archived[t].archive_reason # None
          /\ archived[t].archived_at # None
          /\ archived[t].archived_by # None
    /\ \A t \in DOMAIN active :
          /\ active[t].archive_reason = None
          /\ active[t].archived_at = None
          /\ active[t].archived_by = None

\* ------------------------------------------------- save_tables on its own
\* save_tables called with maps of the caller's making: a record as
\* NewTableModal builds it, with each archive field set or not (archived_at an
\* isoformat string, archived_by a user id written as text)
CallerRecords ==
    {[TableData(form, 1, 1, 0) EXCEPT !.archive_reason = reason,
                                      !.archived_at = at,
                                      !.archived_by = by] :
        form \in Forms,
        reason \in ArchiveReasonMembers \cup {None},
        at \in {None, "2026-01-01T00:00:00+00:00"},
        by \in {None, "1"}}

CallerMaps ==
    {<<>>} \cup UNION {[ids -> CallerRecords] : ids \in (SUBSET (1..MaxSerialTables)) \ {{}}}

SaveInit ==
    /\ active = <<>>
    /\ archived = <<>>
    /\ now = 0
    /\ nextId = 1
    /\ ops = 0
    /\ \E act \in CallerMaps, arc \in CallerMaps :
         job = [w \in Workers |->
                  IF w = 1
                  THEN [Idle EXCEPT !.pc = "save_active", !.op = "save",
                                    !.act = act, !.arc = arc]
                  ELSE Idle]
    /\ overlaps = 0
    /\ overlap = "none"
    /\ joinlog = [t \in TableIds |-> NoLog]
    /\ order = [t \in TableIds |-> <<>>]
    /\ last = NoHandler
    /\ temp = NoFile
    /\ LimiterStart
    /\ SettingsStart

SaveNext == \E w \in Workers : WriteActive(w) \/ WriteArchived(w) \/ Respond(w)

SaveSpec == SaveInit /\ [][SaveNext]_vars

\* C20: after every save_tables call every record in the active partition
\* has all archive fields null (archive_reason, archived_at, archived_by),
\* whatever values the caller passed in; no record with an archive reason is
\* ever visible in the active partition.
C20_SaveClearsArchiveFields ==
    \A t \in DOMAIN active :
        /\ active[t].archive_reason = None
        /\ active[t].archived_at = None
        /\ active[t].archived_by = None

\* ------------------------------------ save_tables, then load_tables
\* the caller's records, where a field may also be missing from the dict
RoundTripRecords ==
    {[TableData(form, 1, 1, 0) EXCEPT !.archive_reason = reason,
                                      !.archived_at = at] :
        form \in Forms,
        reason \in ArchiveReasonMembers \cup {None, Absent},
        at \in {None, "2026-01-01T00:00:00+00:00", Absent}}

RoundTripMaps ==
    {<<>>} \cup UNION {[ids -> RoundTripRecords] :
                          ids \in (SUBSET (1..MaxSerialTables)) \ {{}}}

RoundTripInit ==
    /\ active = <<>>
    /\ archived = <<>>
    /\ now = 0
    /\ nextId = 1
    /\ ops = 0
    /\ \E act \in RoundTripMaps, arc \in RoundTripMaps :
         /\ job = [w \in Workers |->
                     IF w = 1
                     THEN [Idle EXCEPT !.pc = "save_active", !.op = "save",
                                       !.act = act, !.arc = arc]
                     ELSE Idle]
         /\ last = [NoHandler EXCEPT !.op = "save", !.act = act, !.arc = arc]
    /\ overlaps = 0
    /\ overlap = "none"
    /\ joinlog = [t \in TableIds |-> NoLog]
    /\ order = [t \in TableIds |-> <<>>]
    /\ temp = NoFile
    /\ LimiterStart
    /\ SettingsStart

\* load_tables: _read_json(ACTIVE_DATA_FILE), then _read_json(ARCHIVED_DATA_FILE);
\* an exception of the first call ends the second
LoadTables(w, active_file, archived_file) ==
    LET act == LoadJson(active_file)
        arc == LoadJson(archived_file)
    IN /\ job[w].pc = "respond"
       /\ job[w].op = "save"
       /\ job' = [job EXCEPT ![w] =
                    [@ EXCEPT !.pc = "loaded",
                              !.act = act.value,
                              !.arc = IF act.exc = None THEN arc.value ELSE <<>>,
                              !.resp = IF act.exc # None THEN act.exc ELSE arc.exc]]
       /\ UNCHANGED <<active, archived, now, nextId, ops, overlaps, overlap, joinlog,
                      order, last, temp, limiter>>

\* load_tables on the files that save_tables left
load_tables(w) == LoadTables(w, AsFile(active), AsFile(archived))

RoundTripNext ==
    \E w \in Workers : WriteActive(w) \/ WriteArchived(w) \/ load_tables(w)

RoundTripSpec == RoundTripInit /\ [][RoundTripNext]_vars

\* C21: for every pair of record maps (active, archived), save_tables
\* followed by load_tables returns maps with the same keys and with every
\* field of every record equal to what was saved, including the archive
\* reason of archived records and the difference between a field that is null
\* and a field that is absent.
C21_SaveThenLoadReturnsSaved ==
    \A w \in Workers :
        job[w].pc = "loaded" =>
            /\ job[w].resp = None
            /\ job[w].act = last.act
            /\ job[w].arc = last.arc

\* ------------------------------------ _write_json, one system call at a time
\* In this specification active and archived hold what the two paths contain
\* (NoFile, CorruptFile or DictFile), temp holds the file of mkstemp, last.act
\* and last.arc hold what the paths contained before save_tables was called.
StoredMaps(reason) ==
    {<<>>} \cup {[k \in {1} |-> [TableData(form, cap, 1, 0) EXCEPT !.archive_reason = reason]] :
                    form \in Forms, cap \in Caps}

StoredFiles(reason) == {NoFile} \cup {AsFile(WriteJson(m)) : m \in StoredMaps(reason)}

WriteInit ==
    /\ \E old_active \in StoredFiles(None), old_archived \in StoredFiles(ArchiveReasonMOD) :
         /\ active = old_active
         /\ archived = old_archived
         /\ last = [NoHandler EXCEPT !.op = "save", !.act = old_active, !.arc = old_archived]
    /\ \E act \in StoredMaps(None), arc \in StoredMaps(ArchiveReasonMOD) :
         job = [w \in Workers |->
                  IF w = 1
                  THEN [Idle EXCEPT !.pc = "mkstemp", !.op = "write_active",
                                    !.act = act, !.arc = arc]
                  ELSE Idle]
    /\ now = 0
    /\ nextId = 1
    /\ ops = 0
    /\ overlaps = 0
    /\ overlap = "none"
    /\ joinlog = [t \in TableIds |-> NoLog]
    /\ order = [t \in TableIds |-> <<>>]
    /\ temp = NoFile
    /\ LimiterStart
    /\ SettingsStart

\* json.dump(serializable, ...): the text of the write in progress
Serializable(w) ==
    IF job[w].op = "write_active"
    THEN AsFile(WriteJson(NormalizedActive(job[w].act)))
    ELSE AsFile(WriteJson(job[w].arc))

WriteSteps == {"mkstemp", "dump", "flush", "fsync", "replace"}

WriteStep(w, from, to, file) ==
    /\ job[w].pc = from
    /\ job' = [job EXCEPT ![w].pc = to]
    /\ temp' = file
    /\ UNCHANGED <<active, archived, now, nextId, ops, overlaps, overlap, joinlog,
                   order, last, limiter>>

\* tempfile.mkstemp: a new file of zero bytes in the directory of the path
mkstemp(w) == WriteStep(w, "mkstemp", "dump", CorruptFile)

\* the text written to the path itself instead of the temporary file
json_dump_in_place(w) ==
    \E file \in {CorruptFile, Serializable(w)} :
        /\ job[w].pc = "dump"
        /\ job' = [job EXCEPT ![w].pc = "flush"]
        /\ IF job[w].op = "write_active"
           THEN active' = file /\ UNCHANGED archived
           ELSE archived' = file /\ UNCHANGED active
        /\ UNCHANGED <<now, nextId, ops, overlaps, overlap, joinlog, order, last, temp,
                       limiter>>

\* json.dump into the buffered handle: the file holds a prefix of the text, or
\* all of it
json_dump(w) ==
    \E file \in {CorruptFile, Serializable(w)} : WriteStep(w, "dump", "flush", file)

\* target.flush(): all of the text is in the file
flush(w) == WriteStep(w, "flush", "fsync", Serializable(w))

\* os.fsync(target.fileno())
fsync(w) == WriteStep(w, "fsync", "replace", temp)

\* os.replace(temp_path, path)
os_replace(w) ==
    /\ job[w].pc = "replace"
    /\ job' = [job EXCEPT ![w].pc = "finally"]
    /\ temp' = NoFile
    /\ IF job[w].op = "write_active"
       THEN active' = temp /\ UNCHANGED archived
       ELSE archived' = temp /\ UNCHANGED active
    /\ UNCHANGED <<now, nextId, ops, overlaps, overlap, joinlog, order, last, limiter>>

\* a system call of the write fails: the finally block runs with the exception
\* pending
RaiseOSError(w) ==
    /\ job[w].pc \in WriteSteps
    /\ job' = [job EXCEPT ![w].pc = "finally", ![w].resp = "OSError"]
    /\ UNCHANGED <<active, archived, now, nextId, ops, overlaps, overlap, joinlog,
                   order, last, temp, limiter>>

\* finally: os.remove(temp_path) if it exists; then the exception leaves
\* save_tables, or save_tables goes on to the archived path, or returns
remove_temp(w) ==
    /\ job[w].pc = "finally"
    /\ temp' = NoFile
    /\ job' = [job EXCEPT ![w] =
                 IF @.resp = "OSError" THEN [@ EXCEPT !.pc = "raised"]
                 ELSE IF @.op = "write_active"
                      THEN [@ EXCEPT !.pc = "mkstemp", !.op = "write_archived"]
                      ELSE [@ EXCEPT !.pc = "returned"]]
    /\ UNCHANGED <<active, archived, now, nextId, ops, overlaps, overlap, joinlog,
                   order, last, limiter>>

\* the process dies between two system calls: nothing more runs, the finally
\* block included
Crash(w) ==
    /\ job[w].pc \in WriteSteps \cup {"finally"}
    /\ job' = [job EXCEPT ![w].pc = "crashed"]
    /\ UNCHANGED <<active, archived, now, nextId, ops, overlaps, overlap, joinlog,
                   order, last, temp, limiter>>

WriteNext ==
    \E w \in Workers :
        \/ mkstemp(w)
        \/ json_dump(w)
        \/ flush(w)
        \/ fsync(w)
        \/ os_replace(w)
        \/ remove_temp(w)
        \/ RaiseOSError(w)
        \/ Crash(w)

WriteSpec == WriteInit /\ [][WriteNext]_vars

\* C22: _write_json is atomic for readers: whatever step the write has
\* reached (temporary file created, text written, flushed, synced, renamed) and
\* also after a crash at that step, each of the two paths holds either the
\* complete content it had before or the complete new content, never a part of
\* either.
C22_PathHoldsOldOrNewComplete ==
    /\ active \in {last.act, AsFile(WriteJson(NormalizedActive(job[1].act)))}
    /\ archived \in {last.arc, AsFile(WriteJson(job[1].arc))}

\* a crash after the text was only partly in the temporary file, with the
\* path still holding the previous content, which differs from the new one
C22_Witness ==
    /\ job[1].pc = "crashed"
    /\ temp = CorruptFile
    /\ job[1].op = "write_active"
    /\ active = last.act
    /\ active # AsFile(WriteJson(NormalizedActive(job[1].act)))
    /\ active # NoFile

\* C23: when a system call of the write fails, the exception reaches the
\* caller of save_tables and both paths hold what they held before the call.
C23_FailedSaveLeavesBothPaths ==
    \A w \in Workers :
        job[w].pc = "raised" =>
            /\ job[w].resp = "OSError"
            /\ active = last.act
            /\ archived = last.arc

\* ------------------------------------ load_tables on files of any content
\* In this specification active and archived hold what the two paths contain.
MaxEntries == 2

\* an item of the JSON object: a value that is no object, or an object whose
\* archive_reason is null, a stored reason, a string that is no reason, or
\* not there
NotAnObject == [kind |-> "str", fields |-> <<>>]
RawEntries ==
    {NotAnObject} \cup
    {[kind |-> "dict", fields |-> [TableData(form, 1, 1, 0) EXCEPT !.archive_reason = reason]] :
        form \in Forms, reason \in {None, "MOD", "BOGUS", Absent}}

RawFiles ==
    {NoFile, CorruptFile, ListFile} \cup
    UNION {{DictFile(items) : items \in [ids -> RawEntries]} : ids \in SUBSET (1..MaxEntries)}

LoadInit ==
    /\ \E active_file \in RawFiles, archived_file \in RawFiles :
         /\ active = active_file
         /\ archived = archived_file
    /\ job = [w \in Workers |->
                IF w = 1 THEN [Idle EXCEPT !.pc = "respond", !.op = "save"] ELSE Idle]
    /\ last = NoHandler
    /\ now = 0
    /\ nextId = 1
    /\ ops = 0
    /\ overlaps = 0
    /\ overlap = "none"
    /\ joinlog = [t \in TableIds |-> NoLog]
    /\ order = [t \in TableIds |-> <<>>]
    /\ temp = NoFile
    /\ LimiterStart
    /\ SettingsStart

\* load_tables on the two paths as they are
load_raw_tables(w) == LoadTables(w, active, archived)

LoadNext == \E w \in Workers : load_raw_tables(w)

LoadSpec == LoadInit /\ [][LoadNext]_vars

\* the entries of a file that are objects with archive_reason null or a
\* stored reason
WellFormed(file) ==
    IF file.kind # "dict" THEN {}
    ELSE {k \in DOMAIN file.items :
             /\ file.items[k].kind = "dict"
             /\ file.items[k].fields.archive_reason \in {None, "MOD", "OWNER", "NO_ACCESS", "KICK"}}

\* C24: loading never fails on malformed data: a file that is no JSON or no
\* JSON object loads as the empty map, an entry that is no object, lacks
\* archive_reason or carries an unknown reason is left out, the other entries
\* are loaded, and no exception escapes load_tables.
C24_LoadNeverFails ==
    \A w \in Workers :
        job[w].pc = "loaded" =>
            /\ job[w].resp = None
            /\ DOMAIN job[w].act = WellFormed(active)
            /\ DOMAIN job[w].arc = WellFormed(archived)

\* ------------------------------------------------ the rate limiter
\* Instants are counted in ticks of 1/TicksPerSecond second, so that a
\* timedelta can hold a fraction of a second; the configured limits are small
\* stand-ins for rate_limits.user_command_limit and its neighbours.
TicksPerSecond == 2
MaxRateTick == 6
MaxCalls == 4
MaxRateKeys == 2
UserCommandLimit == 2
UserCommandWindowSeconds == 2
GuildCommandLimit == 1
GuildCommandWindowSeconds == 1

RateKeys == 1..MaxRateKeys

\* get_user_command_rate_limit(), get_guild_command_rate_limit()
get_user_command_rate_limit ==
    [max_commands |-> UserCommandLimit, window_seconds |-> UserCommandWindowSeconds]
get_guild_command_rate_limit ==
    [max_commands |-> GuildCommandLimit, window_seconds |-> GuildCommandWindowSeconds]

\* timedelta(seconds=window_seconds)
timedelta(seconds) == seconds * TicksPerSecond

\* int(delta.total_seconds()): the fraction is cut off, towards zero
IntTotalSeconds(delta) ==
    IF delta >= 0 THEN delta \div TicksPerSecond ELSE 0 - ((0 - delta) \div TicksPerSecond)

\* limits.setdefault(key, deque())
SetDefault(limits, key) == IF key \in DOMAIN limits THEN limits[key] ELSE <<>>

\* the loop popping from the newest end
RECURSIVE PopRightBefore(_, _)
PopRightBefore(timestamps, cutoff) ==
    IF timestamps # <<>> /\ timestamps[Len(timestamps)] < cutoff
    THEN PopRightBefore(SubSeq(timestamps, 1, Len(timestamps) - 1), cutoff)
    ELSE timestamps

\* while timestamps and timestamps[0] < cutoff: timestamps.popleft()
RECURSIVE PopLeftBefore(_, _)
PopLeftBefore(timestamps, cutoff) ==
    IF timestamps # <<>> /\ Head(timestamps) < cutoff
    THEN PopLeftBefore(Tail(timestamps), cutoff)
    ELSE timestamps

\* the length test written with > instead of >=
CheckRateLimitOneMore(timestamps, t, config) ==
    LET window == timedelta(config.window_seconds)
        cutoff == t - window
        kept == PopLeftBefore(timestamps, cutoff)
    IN IF Len(kept) > config.max_commands
       THEN LET oldest == Head(kept)
                wait == IntTotalSeconds(oldest + window - t)
            IN [timestamps |-> kept, allowed |-> FALSE,
                wait_seconds |-> IF wait > 0 THEN wait ELSE 0]
       ELSE [timestamps |-> Append(kept, t), allowed |-> TRUE, wait_seconds |-> 0]

\* the denied call recorded in the deque as well
CheckRateLimitRecordsDenied(timestamps, t, config) ==
    LET window == timedelta(config.window_seconds)
        cutoff == t - window
        kept == PopLeftBefore(timestamps, cutoff)
    IN IF Len(kept) >= config.max_commands
       THEN LET oldest == Head(kept)
                wait == IntTotalSeconds(oldest + window - t)
            IN [timestamps |-> Append(kept, t), allowed |-> FALSE,
                wait_seconds |-> IF wait > 0 THEN wait ELSE 0]
       ELSE [timestamps |-> Append(kept, t), allowed |-> TRUE, wait_seconds |-> 0]

\* the body shared by check_user_rate_limit and check_guild_rate_limit: the
\* deque it leaves and the pair it returns
CheckRateLimit(timestamps, t, config) ==
    LET window == timedelta(config.window_seconds)
        cutoff == t - window
        kept == PopLeftBefore(timestamps, cutoff)
    IN IF Len(kept) >= config.max_commands
       THEN LET oldest == Head(kept)
                wait == IntTotalSeconds(oldest + window - t)
            IN [timestamps |-> kept, allowed |-> FALSE,
                wait_seconds |-> IF wait > 0 THEN wait ELSE 0]
       ELSE [timestamps |-> Append(kept, t), allowed |-> TRUE, wait_seconds |-> 0]

RateInit ==
    /\ active = <<>>
    /\ archived = <<>>
    /\ now = 0
    /\ nextId = 1
    /\ ops = 0
    /\ job = [w \in Workers |-> Idle]
    /\ last = NoHandler
    /\ overlaps = 0
    /\ overlap = "none"
    /\ joinlog = [t \in TableIds |-> NoLog]
    /\ order = [t \in TableIds |-> <<>>]
    /\ temp = NoFile
    /\ LimiterStart
    /\ SettingsStart

\* one call, at an instant not before the previous call's
Called(limiter_name, key, t, result) ==
    /\ Len(calls) < MaxCalls
    /\ t \in now..MaxRateTick
    /\ now' = t
    /\ calls' = Append(calls, [limiter |-> limiter_name, key |-> key, at |-> t,
                               allowed |-> result.allowed,
                               wait_seconds |-> result.wait_seconds])
    /\ UNCHANGED <<active, archived, nextId, ops, job, overlaps, overlap, joinlog,
                   order, last, temp, settings>>

check_user_rate_limit(user_id, t) ==
    LET result == CheckRateLimit(SetDefault(user_rate_limits, user_id), t,
                                 get_user_command_rate_limit)
    IN /\ Called("user", user_id, t, result)
       /\ user_rate_limits' = Put(user_rate_limits, user_id, result.timestamps)
       /\ UNCHANGED guild_rate_limits

check_guild_rate_limit(guild_id, t) ==
    LET result == CheckRateLimit(SetDefault(guild_rate_limits, guild_id), t,
                                 get_guild_command_rate_limit)
    IN /\ Called("guild", guild_id, t, result)
       /\ guild_rate_limits' = Put(guild_rate_limits, guild_id, result.timestamps)
       /\ UNCHANGED user_rate_limits

RateNext ==
    \E key \in RateKeys, t \in 0..MaxRateTick :
        \/ check_user_rate_limit(key, t)
        \/ check_guild_rate_limit(key, t)

RateSpec == RateInit /\ [][RateNext]_vars

\* the configuration a call was checked against, the earlier calls on its key
\* and, among them, the admitted ones that its window still covers
ConfigOf(i) ==
    IF calls[i].limiter = "user" THEN get_user_command_rate_limit
    ELSE get_guild_command_rate_limit
SameKeyBefore(i) ==
    {j \in 1..(i - 1) : calls[j].limiter = calls[i].limiter /\ calls[j].key = calls[i].key}
InWindow(i) ==
    {j \in SameKeyBefore(i) :
        /\ calls[j].allowed
        /\ calls[j].at >= calls[i].at - timedelta(ConfigOf(i).window_seconds)}

\* C25: a rate-limit check is Allowed exactly when fewer than maxCount
\* previously admitted timestamps of its key are not older than now - window;
\* hence no window holds more than maxCount admitted calls of one key.
C25_AllowedIffFewerThanMaxInWindow ==
    \A i \in DOMAIN calls :
        /\ calls[i].allowed <=> Cardinality(InWindow(i)) < ConfigOf(i).max_commands
        /\ Cardinality(InWindow(i)) <= ConfigOf(i).max_commands

\* maxCount calls of one key admitted, and one more inside the window denied
\* with a wait that is not negative
C25_Witness ==
    \E i \in DOMAIN calls :
        /\ calls[i].limiter = "user"
        /\ ~calls[i].allowed
        /\ calls[i].wait_seconds >= 0
        /\ Cardinality(InWindow(i)) = UserCommandLimit

\* the oldest admitted timestamp that the window of call i still covers
Oldest(i) == CHOOSE ts \in {calls[j].at : j \in InWindow(i)} :
                 \A j \in InWindow(i) : ts <= calls[j].at

\* the whole seconds that cover a span of ticks
CeilSeconds(delta) == (delta + TicksPerSecond - 1) \div TicksPerSecond

\* C26: on every denial waitSeconds = ceil(oldest_timestamp + windowDuration
\* - now), clamped to be >= 0, where oldest_timestamp is the oldest admitted
\* timestamp remaining for the key after pruning; a fraction of a second is
\* rounded up.
C26_WaitIsCeilOfRemaining ==
    \A i \in DOMAIN calls :
        ~calls[i].allowed =>
            LET remaining == Oldest(i) + timedelta(ConfigOf(i).window_seconds) - calls[i].at
            IN calls[i].wait_seconds = IF remaining > 0 THEN CeilSeconds(remaining) ELSE 0

\* the admitted call times of a key, oldest first
RECURSIVE AdmittedTimes(_, _, _)
AdmittedTimes(limiter_name, key, n) ==
    IF n = 0 THEN <<>>
    ELSE IF /\ calls[n].limiter = limiter_name /\ calls[n].key = key /\ calls[n].allowed
         THEN Append(AdmittedTimes(limiter_name, key, n - 1), calls[n].at)
         ELSE AdmittedTimes(limiter_name, key, n - 1)

IsSuffix(s, all) ==
    /\ Len(s) <= Len(all)
    /\ s = SubSeq(all, Len(all) - Len(s) + 1, Len(all))

\* C27: after a denial, the next call on the key that comes after the window
\* has fully elapsed since the oldest timestamp the denial kept is Allowed
\* again; timestamps are pruned from the oldest end, so each deque is the
\* newest part of what was admitted for its key.
C27_AllowedAgainAfterWindow ==
    /\ \A i \in DOMAIN calls : \A j \in SameKeyBefore(i) :
           (/\ ~calls[j].allowed
            /\ \A k \in SameKeyBefore(i) : k > j => ~calls[k].allowed
            /\ calls[i].at > Oldest(j) + timedelta(ConfigOf(i).window_seconds))
               => calls[i].allowed
    /\ \A key \in DOMAIN user_rate_limits :
           IsSuffix(user_rate_limits[key], AdmittedTimes("user", key, Len(calls)))
    /\ \A key \in DOMAIN guild_rate_limits :
           IsSuffix(guild_rate_limits[key], AdmittedTimes("guild", key, Len(calls)))

\* a denial, then an admitted call after the window, with a newer timestamp
\* of the key still held from before the denial
C27_Witness ==
    \E i \in DOMAIN calls : \E j \in SameKeyBefore(i) :
        /\ calls[i].limiter = "user"
        /\ ~calls[j].allowed
        /\ calls[i].allowed
        /\ calls[i].at > Oldest(j) + timedelta(UserCommandWindowSeconds)
        /\ Len(user_rate_limits[calls[i].key]) = 2
        /\ Head(user_rate_limits[calls[i].key]) < calls[i].at

\* ------------------------------- commands and buttons, with the rate limiter
\* In this specification an instant of the handlers is one tick of the
\* limiter.
MaxGateUsers == 1

GateUsers == 1..MaxGateUsers

DeniedReplies == {"Please wait", "This server is busy"}

\* /show-tables from its entry to its first await, with the clock reading ts:
\* the two checks, then load_active_tables(); guild_id 0 stands for an
\* interaction outside a guild
ShowTablesAt(u, guild_id, ts) ==
        LET user == CheckRateLimit(SetDefault(user_rate_limits, u), ts,
                                   get_user_command_rate_limit)
            guild == CheckRateLimit(SetDefault(guild_rate_limits, guild_id), ts,
                                    get_guild_command_rate_limit)
            user_call == [limiter |-> "user", key |-> u, at |-> ts,
                          allowed |-> user.allowed, wait_seconds |-> user.wait_seconds]
            guild_call == [limiter |-> "guild", key |-> guild_id, at |-> ts,
                           allowed |-> guild.allowed, wait_seconds |-> guild.wait_seconds]
            replied(resp, act) ==
                last' = [NoHandler EXCEPT !.op = "show-tables", !.user = u,
                                          !.act = act, !.resp = resp]
        IN /\ Len(calls) + 2 <= MaxCalls
           /\ now' = ts
           /\ user_rate_limits' = Put(user_rate_limits, u, user.timestamps)
           /\ IF ~user.allowed
              THEN /\ calls' = Append(calls, user_call)
                   /\ replied("Please wait", <<>>)
                   /\ UNCHANGED guild_rate_limits
              ELSE IF guild_id = 0
              THEN /\ calls' = Append(calls, user_call)
                   /\ replied("Shown", ReadJson(active))
                   /\ UNCHANGED guild_rate_limits
              ELSE /\ calls' = Append(Append(calls, user_call), guild_call)
                   /\ guild_rate_limits' = Put(guild_rate_limits, guild_id, guild.timestamps)
                   /\ IF guild.allowed
                      THEN replied("Shown", ReadJson(active))
                      ELSE replied("This server is busy", <<>>)
           /\ UNCHANGED <<active, archived, nextId, ops, overlaps, overlap, joinlog,
                          order, temp, settings>>

\* /show-tables run with no other handler in flight
show_tables(u, guild_id) ==
    \E ts \in Readings : ShowTablesAt(u, guild_id, ts) /\ UNCHANGED job

GateNext ==
    \/ \E u \in GateUsers, guild_id \in 0..1 : show_tables(u, guild_id)
    \/ \E u \in GateUsers : NewTable_on_submit(u)
    \/ \E t \in 1..(nextId - 1), u \in GateUsers :
         \/ join_callback(t, u)
         \/ leave_callback(t, u)
         \/ EditTable_on_submit(t, u)
         \/ select_callback(t, u)

GateSpec == Init /\ [][GateNext]_vars

\* C28: every externally triggered operation (create, join, leave, edit,
\* archive, the listing commands) passes a rate-limit check before it reads or
\* writes the store: a step in which a handler loads the store, or in which
\* the store changes, is a step whose rate-limit checks all admitted the actor.
C28_StoreAccessOnlyAfterAdmission ==
    [][(\/ last' # last /\ last'.resp \notin DeniedReplies
        \/ <<active, archived>>' # <<active, archived>>)
          => /\ Len(calls') > Len(calls)
             /\ \A i \in (Len(calls) + 1)..Len(calls') : calls'[i].allowed
             /\ calls'[Len(calls) + 1].key = last'.user]_vars

\* ------------------------------------ join and leave with name lookups
\* Entries carry display_name here; an entry stored without one (the key is
\* NotRequired) makes _populate_display_names look the name up.
NamedEntry(user, ts, display_name) ==
    [id |-> user, joined_at |-> ts, display_name |-> display_name]

\* what the Discord client does for one handler: interaction.guild is there or
\* not, the caches hit or miss, a fetch returns or raises
FetchOutcomes == {"ok", "HTTPException", "Forbidden", "NotFound", "OSError"}
Caught == {"HTTPException", "Forbidden", "NotFound"}
LookupOutcomes ==
    [guild : BOOLEAN, get_member : {"hit", "miss"}, fetch_member : FetchOutcomes,
     get_user : {"hit", "miss"}, fetch_user : FetchOutcomes]

\* _resolve_display_name: the name, None, or the exception that leaves it
resolve_display_name(o) ==
    LET resolved == [exc |-> None, value |-> "name"]
        from_user ==
            IF o.get_user = "hit" \/ o.fetch_user = "ok" THEN resolved
            ELSE IF o.fetch_user \in Caught THEN [exc |-> None, value |-> None]
            ELSE [exc |-> o.fetch_user, value |-> None]
    IN IF ~o.guild THEN from_user
       ELSE IF o.get_member = "hit" \/ o.fetch_member = "ok" THEN resolved
       ELSE IF o.fetch_member \in Caught THEN from_user
       ELSE [exc |-> o.fetch_member, value |-> None]

\* _populate_display_names: every entry without a name is looked up
populate_display_names(data, o) ==
    LET unnamed(bucket) == \E i \in DOMAIN bucket : bucket[i].display_name = Absent
        found == resolve_display_name(o)
        named(bucket) ==
            [i \in DOMAIN bucket |->
                IF bucket[i].display_name = Absent /\ found.value # None
                THEN [bucket[i] EXCEPT !.display_name = found.value]
                ELSE bucket[i]]
    IN IF (unnamed(data.players) \/ unnamed(data.waitlist)) /\ found.exc # None
       THEN [exc |-> found.exc, data |-> data]
       ELSE [exc |-> None,
             data |-> [data EXCEPT !.players = named(@), !.waitlist = named(@)]]

\* the entry join_callback appends: getattr(user, "display_name", user.name)
WithOwnName(bucket, u) ==
    [i \in DOMAIN bucket |->
        IF bucket[i].id = u
        THEN NamedEntry(u, bucket[i].joined_at, "name")
        ELSE bucket[i]]

\* the end of both callbacks: the lookups, then save_tables unless a lookup
\* raised
PopulateAndSave(op, t, u, act, arc, data, o, resp) ==
    LET populated == populate_display_names(data, o)
    IN IF populated.exc # None
       THEN Returns(op, t, u, act, arc, populated.exc)
       ELSE /\ SaveTables(Put(act, t, populated.data), arc)
            /\ Ran(op, t, u, act, arc, <<>>, resp)
            /\ UNCHANGED <<now, nextId, order>>

join_callback_with_lookup(t, u) ==
    LET act == ReadJson(active)
        arc == ReadJson(archived)
    IN IF t \notin DOMAIN act
       THEN Returns("join", t, u, act, arc, "This table no longer exists.")
       ELSE LET table_data == act[t] IN
            IF AlreadySignedUp(table_data, u)
            THEN Returns("join", t, u, act, arc, "You are already signed up!")
            ELSE IF AlreadyOnWaitlist(table_data, u)
            THEN Returns("join", t, u, act, arc, "You are already on the waitlist!")
            ELSE \E o \in LookupOutcomes :
                   LET joined == JoinTable(table_data, u, now)
                   IN PopulateAndSave("join", t, u, act, arc,
                          [joined EXCEPT !.players = WithOwnName(@, u),
                                         !.waitlist = WithOwnName(@, u)], o,
                          IF Len(table_data.players) >= table_data.max_players
                          THEN "Waitlisted" ELSE "Seated")

leave_callback_with_lookup(t, u) ==
    LET act == ReadJson(active)
        arc == ReadJson(archived)
    IN IF t \notin DOMAIN act
       THEN Returns("leave", t, u, act, arc, "You weren't signed up in the first place.")
       ELSE LET table_data == act[t] IN
            IF InBucket(table_data.players, u)
            THEN \E o \in LookupOutcomes :
                   PopulateAndSave("leave", t, u, act, arc, LeavePlayers(table_data, u), o,
                          IF table_data.waitlist # <<>> THEN "LeftPromoted" ELSE "Left")
            ELSE IF InBucket(table_data.waitlist, u)
            THEN \E o \in LookupOutcomes :
                   PopulateAndSave("leave", t, u, act, arc, LeaveWaitlist(table_data, u), o,
                          "RemovedFromWaitlist")
            ELSE Returns("leave", t, u, act, arc, "You weren't signed up in the first place.")

\* a table stored by an earlier version: user 2 seated, user 3 perhaps
\* waiting, each with or without a stored name
NameInit ==
    /\ \E form \in Forms, cap \in Caps, d2 \in {Absent, "name"}, d3 \in {Absent, "name"},
          waiting \in BOOLEAN, seated \in BOOLEAN :
         active = [t \in {1} |->
                     [TableData(form, cap, 1, 0) EXCEPT
                        !.players = IF seated THEN <<NamedEntry(2, 0, d2)>> ELSE <<>>,
                        !.waitlist = IF seated /\ waiting /\ cap = 1
                                     THEN <<NamedEntry(3, 0, d3)>> ELSE <<>>]]
    /\ archived = <<>>
    /\ now = 0
    /\ nextId = 2
    /\ ops = 0
    /\ job = [w \in Workers |-> Idle]
    /\ last = NoHandler
    /\ overlaps = 0
    /\ overlap = "none"
    /\ joinlog = [t \in TableIds |-> NoLog]
    /\ order = [t \in TableIds |-> <<>>]
    /\ temp = NoFile
    /\ LimiterStart
    /\ SettingsStart

NameNext ==
    \E t \in {1}, u \in Users :
        \/ join_callback_with_lookup(t, u)
        \/ leave_callback_with_lookup(t, u)

NameSpec == NameInit /\ [][NameNext]_vars

\* C29: a failure of a display-name lookup during join or leave never fails
\* or prevents the state transition: whatever the lookup did, a join by a user
\* who was on neither list leaves the user on a list of the stored table, and
\* a leave by a user who was on a list leaves the user on none.
C29_LookupNeverPreventsTransition ==
    /\ (last.op = "join" /\ last.user \notin Members(last.act[last.table]))
          => last.user \in Members(active[last.table])
    /\ (last.op = "leave" /\ last.user \in Members(last.act[last.table]))
          => last.user \notin Members(active[last.table])

\* ------------------------------------ create on a store that holds records
\* The store holds a table under id 0 before the modal is submitted: active,
\* with or without a player, or archived.
CreateInit ==
    /\ \E form \in Forms, cap \in Caps, creator \in Users, seated \in SUBSET Users,
          is_archived \in BOOLEAN :
         LET stored == [TableData(form, cap, creator, 0) EXCEPT
                          !.players = IF seated = {} \/ Cardinality(seated) > 1 THEN <<>>
                                      ELSE <<PlayerEntry(CHOOSE x \in seated : TRUE, 0)>>]
         IN /\ Cardinality(seated) <= 1
            /\ IF is_archived
               THEN /\ active = <<>>
                    /\ archived = [t \in {0} |->
                                     [stored EXCEPT !.archive_reason = "OWNER"]]
               ELSE /\ active = [t \in {0} |-> stored]
                    /\ archived = <<>>
    /\ now = 0
    /\ nextId = 1
    /\ ops = 0
    /\ job = [w \in Workers |-> Idle]
    /\ last = NoHandler
    /\ overlaps = 0
    /\ overlap = "none"
    /\ joinlog = [t \in TableIds |-> NoLog]
    /\ order = [t \in TableIds |-> <<>>]
    /\ temp = NoFile
    /\ LimiterStart
    /\ SettingsStart

CreateNext == \E u \in Users : NewTable_on_submit(u)

CreateSpec == CreateInit /\ [][CreateNext]_vars

\* C30: for every valid create input whose signup card is posted, exactly one
\* record is added to the active partition, under an id that neither
\* partition held, with empty roster, empty waitlist, the capacity typed in,
\* the actor as creator and null archive fields; every record stored before is
\* unchanged.
C30_CreateAddsOneFreshRecord ==
    (last.op = "create" /\ last.resp = "Created") =>
        LET t == last.table IN
        /\ t \notin DOMAIN last.act
        /\ t \notin DOMAIN last.arc
        /\ DOMAIN active = DOMAIN last.act \cup {t}
        /\ active[t].players = <<>>
        /\ active[t].waitlist = <<>>
        /\ active[t].max_players = last.max_players_int
        /\ active[t].creator_id = last.user
        /\ active[t].archive_reason = None
        /\ active[t].archived_at = None
        /\ active[t].archived_by = None
        /\ \A k \in DOMAIN last.act : active[k] = last.act[k]
        /\ ReadJson(archived) = last.arc

\* a table created by someone else than the creator of the stored table, with
\* another capacity, while the stored table has a player
C30_Witness ==
    /\ last.op = "create"
    /\ last.resp = "Created"
    /\ 0 \in DOMAIN active
    /\ active[0].players # <<>>
    /\ active[last.table].creator_id # active[0].creator_id
    /\ active[last.table].max_players # active[0].max_players

\* ------------------------------------ the modals, validation included
\* A text typed into a modal is kept by its shape: pad spaces on either side
\* of a core of chars characters that starts and ends with a non-space. The
\* capacity field is digits with a value, or something int() rejects.
MaxPad == 1
MaxPlayersLimit == 20
SystemLimit == 100
ScheduleLimit == 120
InfosLimit == 1024

TypedText(pad, chars) == [pad |-> pad, chars |-> chars]
TypedTexts(limit) == {TypedText(pad, chars) : pad \in 0..MaxPad, chars \in {0, 1, limit, limit + 1}}
TypedNumbers ==
    {[kind |-> "int", value |-> v] : v \in {0 - 1, 0, MaxPlayersLimit + 1} \cup Seats}
    \cup {[kind |-> "text", value |-> 0]}

ModalInputs ==
    [system : TypedTexts(SystemLimit), schedule : TypedTexts(ScheduleLimit),
     infos : TypedTexts(InfosLimit), max_players : TypedNumbers]

\* len(field.value.strip())
StrippedLen(text) == text.chars

\* the skipped test: an empty schedule passes
ValidateNoScheduleTest(input) ==
    IF \/ input.max_players.kind # "int"
       \/ input.max_players.value <= 0
       \/ input.max_players.value > MaxPlayersLimit
    THEN "The 'Max Number of Players' must be a number between 1 and 20."
    ELSE IF StrippedLen(input.system) = 0 THEN "System cannot be empty."
    ELSE IF StrippedLen(input.infos) = 0 THEN "Infos cannot be empty."
    ELSE IF StrippedLen(input.system) > SystemLimit
    THEN "System is too long (max 100 characters)."
    ELSE IF StrippedLen(input.schedule) > ScheduleLimit
    THEN "Schedule is too long (max 120 characters)."
    ELSE IF StrippedLen(input.infos) > InfosLimit
    THEN "Infos are too long (max 1024 characters)."
    ELSE "ok"

\* the checks at the head of both on_submit, in their order: the reply of the
\* first that fails
Validate(input) ==
    IF \/ input.max_players.kind # "int"
       \/ input.max_players.value <= 0
       \/ input.max_players.value > MaxPlayersLimit
    THEN "The 'Max Number of Players' must be a number between 1 and 20."
    ELSE IF StrippedLen(input.system) = 0 THEN "System cannot be empty."
    ELSE IF StrippedLen(input.schedule) = 0 THEN "Schedule cannot be empty."
    ELSE IF StrippedLen(input.infos) = 0 THEN "Infos cannot be empty."
    ELSE IF StrippedLen(input.system) > SystemLimit
    THEN "System is too long (max 100 characters)."
    ELSE IF StrippedLen(input.schedule) > ScheduleLimit
    THEN "Schedule is too long (max 120 characters)."
    ELSE IF StrippedLen(input.infos) > InfosLimit
    THEN "Infos are too long (max 1024 characters)."
    ELSE "ok"

\* the modal on the screen of worker w, filled in
Typed(w) == job[w].act

\* NewTableModal.on_submit from its first line
NewTableModal_on_submit(w, u) ==
    /\ job[w].pc = "submitted"
    /\ job[w].op = "create"
    /\ IF Validate(Typed(w)) # "ok"
       THEN Returns("create", 0, u, <<>>, <<>>, Validate(Typed(w)))
       ELSE /\ NewTable_on_submit(u)
            /\ last'.max_players_int = Typed(w).max_players.value

\* EditTableModal.on_submit from its first line
EditTableModal_on_submit(w, t, u) ==
    /\ job[w].pc = "submitted"
    /\ job[w].op = "edit"
    /\ IF Validate(Typed(w)) # "ok"
       THEN Returns("edit", t, u, <<>>, <<>>, Validate(Typed(w)))
       ELSE EditTable_on_submit(t, u)

\* a modal filled in and submitted, on a store that holds table 1 with one
\* player
ModalInit ==
    /\ \E input \in ModalInputs, op \in {"create", "edit"} :
         job = [w \in Workers |->
                  IF w = 1
                  THEN [Idle EXCEPT !.pc = "submitted", !.op = op, !.act = input]
                  ELSE Idle]
    /\ \E form \in Forms, cap \in Caps :
         active = [t \in {1} |-> [TableData(form, cap, 1, 0) EXCEPT
                                    !.players = <<PlayerEntry(2, 0)>>]]
    /\ archived = <<>>
    /\ now = 0
    /\ nextId = 2
    /\ ops = 0
    /\ last = NoHandler
    /\ overlaps = 0
    /\ overlap = "none"
    /\ joinlog = [t \in TableIds |-> NoLog]
    /\ order = [t \in TableIds |-> <<>>]
    /\ temp = NoFile
    /\ LimiterStart
    /\ SettingsStart

ModalNext ==
    \E w \in Workers, u \in GateUsers :
        \/ NewTableModal_on_submit(w, u)
        \/ EditTableModal_on_submit(w, 1, u)

ModalSpec == ModalInit /\ [][ModalNext]_vars

\* the fields of an input that fail a check, and the field a reply names
Offending(input) ==
    {f \in {"system", "schedule", "infos"} :
        StrippedLen(input[f]) = 0 \/ StrippedLen(input[f]) >
            (CASE f = "system" -> SystemLimit
               [] f = "schedule" -> ScheduleLimit
               [] f = "infos" -> InfosLimit)}
    \cup (IF /\ input.max_players.kind = "int"
             /\ input.max_players.value \in 1..MaxPlayersLimit
          THEN {} ELSE {"max_players"})
FieldNamed(reply) ==
    CASE reply = "The 'Max Number of Players' must be a number between 1 and 20."
           -> "max_players"
      [] reply \in {"System cannot be empty.", "System is too long (max 100 characters)."}
           -> "system"
      [] reply \in {"Schedule cannot be empty.", "Schedule is too long (max 120 characters)."}
           -> "schedule"
      [] reply \in {"Infos cannot be empty.", "Infos are too long (max 1024 characters)."}
           -> "infos"
      [] OTHER -> "none"

\* C31: a create or edit whose input fails validation (capacity no integer in
\* 1..20, a text empty after trimming or longer than 100/120/1024 characters)
\* is rejected with a reply that names an offending field, and leaves both
\* partitions of the store as they were.
C31_InvalidInputRejected ==
    [][Offending(Typed(1)) # {} =>
          /\ FieldNamed(last'.resp) \in Offending(Typed(1))
          /\ UNCHANGED <<active, archived>>]_vars

\* an edit rejected for a system text one character too long, the capacity
\* and the other texts being valid
C31_Witness ==
    /\ last.op = "edit"
    /\ last.resp = "System is too long (max 100 characters)."
    /\ Offending(Typed(1)) = {"system"}
    /\ Typed(1).system.pad = 1
    /\ active # <<>>

\* ------------------------------------ archive_tables on a store of several
\* Each id up to MaxArchiveIds is active, archived or in neither partition;
\* records differ by their creator.
MaxArchiveIds == 3

ArchiveIds == 1..MaxArchiveIds

StoredAt(places, place, reason) ==
    [t \in {x \in ArchiveIds : places[x] = place} |->
        [TableData(CHOOSE form \in Forms : TRUE, 1, t, 0) EXCEPT !.archive_reason = reason]]

ArchiveInit ==
    /\ \E places \in [ArchiveIds -> {"active", "archived", "nowhere"}] :
         /\ active = StoredAt(places, "active", None)
         /\ archived = StoredAt(places, "archived", "OWNER")
    /\ now = 0
    /\ nextId = MaxArchiveIds + 1
    /\ ops = 0
    /\ job = [w \in Workers |-> Idle]
    /\ last = NoHandler
    /\ overlaps = 0
    /\ overlap = "none"
    /\ joinlog = [t \in TableIds |-> NoLog]
    /\ order = [t \in TableIds |-> <<>>]
    /\ temp = NoFile
    /\ LimiterStart
    /\ SettingsStart

ArchiveNext ==
    \E table_ids \in SUBSET ArchiveIds, reason \in ArchiveReasonMembers :
        archive_tables(table_ids, reason)

ArchiveSpec == ArchiveInit /\ [][ArchiveNext]_vars

\* C32: archive_tables(ids, reason) moves exactly the given ids that are
\* active into the archived partition with the given reason, returns the
\* number moved, skips the others, leaves every other record of both
\* partitions as it was, and changes neither file when it moved nothing.
C32_ArchiveMovesExactlyActiveIds ==
    last.op = "bulk" =>
        LET moved == last.table \cap DOMAIN last.act
            act == ReadJson(active)
            arc == ReadJson(archived)
        IN /\ last.archived_count = Cardinality(moved)
           /\ DOMAIN act = (DOMAIN last.act) \ moved
           /\ \A k \in DOMAIN act : act[k] = last.act[k]
           /\ DOMAIN arc = (DOMAIN last.arc) \cup moved
           /\ \A k \in moved : arc[k] = [last.act[k] EXCEPT !.archive_reason = last.reason]
           /\ \A k \in (DOMAIN last.arc) \ moved : arc[k] = last.arc[k]
           /\ moved = {} => last.resp = "archived 0"

\* a call naming an active id, an archived id and an id of neither partition,
\* with another active table left behind
C32_Witness ==
    /\ last.op = "bulk"
    /\ last.archived_count = 1
    /\ \E k \in last.table : k \in DOMAIN last.arc
    /\ \E k \in last.table : k \notin (DOMAIN last.act) \cup (DOMAIN last.arc)
    /\ last.reason = ArchiveReasonKICK

\* ------------------------------------------ the rate-limit configuration
\* A JSON value is a record of its Python type and a number: the integer
\* itself, 1 and 0 for true and false, the digits of a text; a key that is not
\* in a dict reads as None through .get().
MaxConfigInt == 2

DEFAULT_USER_COMMAND_LIMIT == 3
DEFAULT_USER_COMMAND_WINDOW_SECONDS == 10
DEFAULT_GUILD_COMMAND_LIMIT == 12
DEFAULT_GUILD_COMMAND_WINDOW_SECONDS == 10

JsonInt(n) == [type |-> "int", value |-> n]
JsonBool(b) == [type |-> "bool", value |-> IF b THEN 1 ELSE 0]
JsonStr(n) == [type |-> "str", value |-> n]
JsonNone == [type |-> "NoneType", value |-> 0]

JsonScalars ==
    {JsonInt(n) : n \in (0 - 1)..MaxConfigInt} \cup {JsonBool(b) : b \in BOOLEAN}
    \cup {JsonStr(1), JsonNone}

RateLimitKeys == {"user_command_limit", "user_command_window_seconds",
                  "guild_command_limit", "guild_command_window_seconds"}

\* the value under "rate_limits": a dict of the four keys, or no dict
JsonDict(fields) == [type |-> "dict", value |-> 0, fields |-> fields]
RateConfigs ==
    {JsonDict(fields) : fields \in [RateLimitKeys -> JsonScalars]}
    \cup {JsonNone, JsonInt(1)}

\* what can be at CONFIG_FILE: nothing, a file open() fails on, bytes that are
\* no UTF-8 text, text that is no JSON, a JSON list, and a JSON object
ConfigFiles ==
    {[kind |-> k] : k \in {"missing", "unreadable", "undecodable", "invalid", "list"}}
    \cup {[kind |-> "dict", rate_limits |-> r] : r \in RateConfigs}

\* isinstance(value, int): bool is a subclass of int
IsInstanceInt(value) == value.type \in {"int", "bool"}

\* _load_config(): the dict read (as its "rate_limits" entry), or the
\* exception that leaves the function. open() decodes as UTF-8 and raises
\* UnicodeDecodeError, a ValueError that is neither JSONDecodeError nor OSError.
LoadConfig(file) ==
    CASE file.kind = "missing" -> [exc |-> None, rate_limits |-> JsonNone]
      [] file.kind = "dict" -> [exc |-> None, rate_limits |-> file.rate_limits]
      [] file.kind = "list" -> [exc |-> None, rate_limits |-> JsonNone]
      [] file.kind \in {"invalid", "unreadable"} -> [exc |-> None, rate_limits |-> JsonNone]
      [] file.kind = "undecodable" -> [exc |-> "UnicodeDecodeError", rate_limits |-> JsonNone]

\* the body of get_user_command_rate_limit / get_guild_command_rate_limit
\* after the cache test
RateLimitFrom(rate_cfg, limit_key, window_key, default_limit, default_window) ==
    LET candidate(key) == IF rate_cfg.type = "dict" THEN rate_cfg.fields[key] ELSE JsonNone
        taken(key, default) ==
            IF IsInstanceInt(candidate(key)) /\ candidate(key).value > 0
            THEN candidate(key)
            ELSE JsonInt(default)
    IN [exc |-> None,
        max_commands |-> taken(limit_key, default_limit),
        window_seconds |-> taken(window_key, default_window)]

Raised(exc) == [exc |-> exc, max_commands |-> JsonNone, window_seconds |-> JsonNone]

\* one call of a getter: the cached tuple when there is one, else the file is
\* loaded, the tuple built and cached
GetRateLimit(name, cache, limit_key, window_key, default_limit, default_window) ==
    LET loaded == LoadConfig(config_file)
        built == RateLimitFrom(loaded.rate_limits, limit_key, window_key,
                               default_limit, default_window)
        result == IF cache # <<>> THEN cache[1]
                  ELSE IF loaded.exc # None THEN Raised(loaded.exc)
                  ELSE built
    IN /\ last' = [NoHandler EXCEPT !.op = name, !.resp = result]
       /\ cache' = IF result.exc = None THEN <<result>> ELSE cache
       /\ UNCHANGED <<active, archived, now, nextId, ops, job, overlaps, overlap,
                      joinlog, order, temp, user_rate_limits, guild_rate_limits,
                      calls, config_file>>

GetUserCommandRateLimit ==
    /\ GetRateLimit("get_user_command_rate_limit", user_command_rate_limit_cache,
                    "user_command_limit", "user_command_window_seconds",
                    DEFAULT_USER_COMMAND_LIMIT, DEFAULT_USER_COMMAND_WINDOW_SECONDS)
    /\ UNCHANGED guild_command_rate_limit_cache

GetGuildCommandRateLimit ==
    /\ GetRateLimit("get_guild_command_rate_limit", guild_command_rate_limit_cache,
                    "guild_command_limit", "guild_command_window_seconds",
                    DEFAULT_GUILD_COMMAND_LIMIT, DEFAULT_GUILD_COMMAND_WINDOW_SECONDS)
    /\ UNCHANGED user_command_rate_limit_cache

\* the process starts with any configuration file and empty caches
ConfigInit ==
    /\ config_file \in ConfigFiles
    /\ user_command_rate_limit_cache = <<>>
    /\ guild_command_rate_limit_cache = <<>>
    /\ active = <<>>
    /\ archived = <<>>
    /\ now = 0
    /\ nextId = 1
    /\ ops = 0
    /\ job = [w \in Workers |-> Idle]
    /\ last = NoHandler
    /\ overlaps = 0
    /\ overlap = "none"
    /\ joinlog = [t \in TableIds |-> NoLog]
    /\ order = [t \in TableIds |-> <<>>]
    /\ temp = NoFile
    /\ LimiterStart

ConfigNext == GetUserCommandRateLimit \/ GetGuildCommandRateLimit

ConfigSpec == ConfigInit /\ [][ConfigNext]_vars

\* what the document holds under a key as a positive integer, else the default
PositiveIntegerOr(key, default) ==
    IF /\ config_file.kind = "dict"
       /\ config_file.rate_limits.type = "dict"
       /\ config_file.rate_limits.fields[key].type = "int"
       /\ config_file.rate_limits.fields[key].value > 0
    THEN config_file.rate_limits.fields[key]
    ELSE JsonInt(default)

\* C33: for each scope the limit and the window are each taken from the
\* configuration document only when present there as a positive integer, and
\* are otherwise the built-in default (user 3 per 10 s, guild 12 per 10 s),
\* independently of the other field; a missing or malformed document gives
\* all defaults and no getter raises.
C33_RateLimitFallsBackPerField ==
    /\ last.op = "get_user_command_rate_limit" =>
         /\ last.resp.exc = None
         /\ last.resp.max_commands =
              PositiveIntegerOr("user_command_limit", DEFAULT_USER_COMMAND_LIMIT)
         /\ last.resp.window_seconds =
              PositiveIntegerOr("user_command_window_seconds",
                                DEFAULT_USER_COMMAND_WINDOW_SECONDS)
    /\ last.op = "get_guild_command_rate_limit" =>
         /\ last.resp.exc = None
         /\ last.resp.max_commands =
              PositiveIntegerOr("guild_command_limit", DEFAULT_GUILD_COMMAND_LIMIT)
         /\ last.resp.window_seconds =
              PositiveIntegerOr("guild_command_window_seconds",
                                DEFAULT_GUILD_COMMAND_WINDOW_SECONDS)

\* ------------------------------------------- nobody waits beside a free seat
NobodyWaitsBesideFreeSeat(table_data) ==
    table_data.waitlist # <<>> => Len(table_data.players) = table_data.max_players

\* C34 as stated: in every state reachable by any sequence of join, leave and
\* edit, a table with a non-empty waitlist has its roster exactly at capacity.
C34_WaitlistImpliesFullRoster ==
    \A t \in DOMAIN active : NobodyWaitsBesideFreeSeat(active[t])

\* C34 amended: every join, leave and edit that does not raise the capacity
\* keeps "a non-empty waitlist implies len(roster) = capacity" for a table
\* that had it before the step; a new table has it.
C34_KeptUnlessCapacityRaised ==
    [][\A t \in DOMAIN active' :
          IF t \in DOMAIN active
          THEN (/\ NobodyWaitsBesideFreeSeat(active[t])
                /\ active'[t].max_players <= active[t].max_players)
                   => NobodyWaitsBesideFreeSeat(active'[t])
          ELSE NobodyWaitsBesideFreeSeat(active'[t])]_vars

\* an edit has lowered the capacity of a table somebody already waited for:
\* the demoted joined the waitlist and the roster is at the new capacity
C34_Witness ==
    /\ last.op = "edit"
    /\ last.table \in DOMAIN active
    /\ last.moved # <<>>
    /\ last.act[last.table].waitlist # <<>>
    /\ Len(active[last.table].waitlist) > Len(last.moved)
    /\ Len(active[last.table].players) = active[last.table].max_players

\* --------------------------------------------- one partition for every id
\* C35: every table id that has been created is, in every persisted state a
\* reader can see (between the two file writes of one save and under
\* interleaved saves included), in exactly one of the two partitions: never
\* in both the active and the archived file, and never in neither.
C35_EveryIdInExactlyOnePartition ==
    \A t \in TableIds :
        joinlog[t].created =>
            (t \in DOMAIN ReadJson(active)) # (t \in DOMAIN ReadJson(archived))

\* ------------------------------------------- bursts of concurrent commands
\* Handlers are coroutines of one event loop: a handler runs from one await to
\* the next without another handler running in between. /show-tables reads
\* the clock and makes its checks before its first await; the handler is then
\* in flight, awaiting the reply it sends, while other handlers start.
show_tables_invoked(w, u, guild_id) ==
    /\ job[w].pc = "idle"
    /\ \E ts \in now..MaxRateTick :
         /\ ShowTablesAt(u, guild_id, ts)
         /\ job' = [job EXCEPT ![w] = [Idle EXCEPT !.pc = "respond", !.op = "show-tables",
                                                   !.user = u, !.resp = last'.resp]]

\* a reply awaited by a handler in flight is sent and the handler ends
BurstNext ==
    \E w \in Workers :
        \/ \E u \in GateUsers, guild_id \in 0..1 : show_tables_invoked(w, u, guild_id)
        \/ Respond(w)

BurstSpec == Init /\ [][BurstNext]_vars

\* the admitted calls of the key of call i that lie in the window ending at
\* call i, call i included
AdmittedInWindow(i) == InWindow(i) \cup {j \in {i} : calls[j].allowed}

NonDecreasing(timestamps) ==
    \A i, k \in DOMAIN timestamps : i < k => timestamps[i] <= timestamps[k]

\* C36: the prune, the comparison and the append of one check run as one step
\* with respect to every other handler, so with any number of handlers in
\* flight no window of a key ever holds more than maxCount admitted calls, a
\* check is decided on all the admissions made before it, and every stored
\* sequence stays in time order.
C36_BurstsNeverExceedMaxCount ==
    /\ \A i \in DOMAIN calls :
          /\ Cardinality(AdmittedInWindow(i)) <= ConfigOf(i).max_commands
          /\ ~calls[i].allowed => Cardinality(InWindow(i)) = ConfigOf(i).max_commands
    /\ \A key \in DOMAIN user_rate_limits : NonDecreasing(user_rate_limits[key])
    /\ \A key \in DOMAIN guild_rate_limits : NonDecreasing(guild_rate_limits[key])

\* two handlers in flight at once for one user, started at the same instant:
\* the earlier calls of the user filled the window and the latest is denied
C36_Witness ==
    /\ \A w \in Workers : job[w].pc = "respond" /\ job[w].user = 1
    /\ \E w \in Workers : job[w].resp = "Please wait"
    /\ \E w \in Workers : job[w].resp = "Shown"
    /\ Len(calls) > UserCommandLimit
    /\ calls[Len(calls)].at = calls[Len(calls) - 1].at
    /\ ~calls[Len(calls)].allowed

\* ------------------------------------------------ what a check leaves alone
\* the other keys of a dict are as they were, and no key but `key` is new
OtherKeysUnchanged(before, after, key) ==
    /\ DOMAIN after = (DOMAIN before) \cup {key}
    /\ \A other \in (DOMAIN before) \ {key} : after[other] = before[other]

\* C37: a rate-limit check for key k in one scope changes only the timestamp
\* sequence of k in that scope: the sequences of all other keys of the scope
\* and the whole other scope are unchanged, and a Denied check appends
\* nothing to any sequence (what it leaves for k is the end of what was there).
C37_CheckTouchesOnlyItsKey ==
    [][Len(calls') > Len(calls) =>
          LET call == calls'[Len(calls')] IN
          /\ Len(calls') = Len(calls) + 1
          /\ IF call.limiter = "user"
             THEN /\ guild_rate_limits' = guild_rate_limits
                  /\ OtherKeysUnchanged(user_rate_limits, user_rate_limits', call.key)
                  /\ ~call.allowed =>
                       IsSuffix(user_rate_limits'[call.key],
                                SetDefault(user_rate_limits, call.key))
             ELSE /\ user_rate_limits' = user_rate_limits
                  /\ OtherKeysUnchanged(guild_rate_limits, guild_rate_limits', call.key)
                  /\ ~call.allowed =>
                       IsSuffix(guild_rate_limits'[call.key],
                                SetDefault(guild_rate_limits, call.key))]_vars

\* a denied guild check while another guild key and a user key hold
\* timestamps
C37_Witness ==
    /\ calls # <<>>
    /\ calls[Len(calls)].limiter = "guild"
    /\ ~calls[Len(calls)].allowed
    /\ \E other \in DOMAIN guild_rate_limits :
          other # calls[Len(calls)].key /\ guild_rate_limits[other] # <<>>
    /\ \E key \in DOMAIN user_rate_limits : user_rate_limits[key] # <<>>

\* ---------------------------------------------- what the handlers never set
\* the record under id t after the last handler, in whichever partition
StoredNow(t) == IF t \in DOMAIN active THEN active[t] ELSE archived[t]

\* C38: join, leave, edit and archive leave the table's id (its key in the
\* store), creator_id and created_at as they were; join and leave also leave
\* system, schedule, description and capacity as they were.
C38_IdentityFieldsNeverChange ==
    (last.op \in {"join", "leave", "edit", "archive"} /\ last.table \in DOMAIN last.act) =>
        LET old == last.act[last.table] IN
        /\ last.table \in (DOMAIN active) \cup (DOMAIN archived)
        /\ (DOMAIN active) \cup (DOMAIN archived) = (DOMAIN last.act) \cup (DOMAIN last.arc)
        /\ StoredNow(last.table).creator_id = old.creator_id
        /\ StoredNow(last.table).created_at = old.created_at
        /\ last.op \in {"join", "leave"} =>
             /\ StoredNow(last.table).system = old.system
             /\ StoredNow(last.table).schedule = old.schedule
             /\ StoredNow(last.table).infos = old.infos
             /\ StoredNow(last.table).max_players = old.max_players

\* a join, later than the creation and by another user than the creator, that
\* was saved
C38_Witness ==
    /\ last.op = "join"
    /\ last.resp \in {"Seated", "Waitlisted"}
    /\ last.table \in DOMAIN active
    /\ last.user # active[last.table].creator_id
    /\ now > active[last.table].created_at
    /\ active[last.table] # last.act[last.table]

\* ------------------------------------ removal of a guild's or channel's tables
\* Records carry the guild and the channel their signup card was posted in.
MaxGuilds == 2
MaxChannels == 2

Guilds == 1..MaxGuilds
Channels == 1..MaxChannels

\* new_table["guild_id"], new_table["channel_id"]
PostedIn(table_data, guild_id, channel_id) ==
    table_data @@ [guild_id |-> guild_id, channel_id |-> channel_id]

\* the comprehension of remove_tables_for_guild testing the channel
GuildTableIdsByChannel(active_tables, guild_id) ==
    {table_id \in DOMAIN active_tables : active_tables[table_id].channel_id = guild_id}

\* [table_id for table_id, info in active_tables.items() if info["guild_id"] == guild_id]
GuildTableIds(active_tables, guild_id) ==
    {table_id \in DOMAIN active_tables : active_tables[table_id].guild_id = guild_id}

\* [table_id for table_id, info in active_tables.items() if info["channel_id"] == channel_id]
ChannelTableIds(active_tables, channel_id) ==
    {table_id \in DOMAIN active_tables : active_tables[table_id].channel_id = channel_id}

\* on_guild_remove -> storage.remove_tables_for_guild(guild_id)
remove_tables_for_guild(guild_id) ==
    archive_tables_for("remove_tables_for_guild", guild_id,
                       GuildTableIds(ReadJson(active), guild_id), ArchiveReasonKICK)

\* on_guild_channel_delete -> storage.remove_tables_for_channel(channel_id)
remove_tables_for_channel(channel_id) ==
    archive_tables_for("remove_tables_for_channel", channel_id,
                       ChannelTableIds(ReadJson(active), channel_id), ArchiveReasonKICK)

PostedAt(places, guilds, channels, place, reason) ==
    [t \in {x \in ArchiveIds : places[x] = place} |->
        PostedIn([TableData(CHOOSE form \in Forms : TRUE, 1, t, 0)
                     EXCEPT !.archive_reason = reason],
                 guilds[t], channels[t])]

RemoveInit ==
    /\ \E places \in [ArchiveIds -> {"active", "archived", "nowhere"}],
          guilds \in [ArchiveIds -> Guilds], channels \in [ArchiveIds -> Channels] :
         /\ active = PostedAt(places, guilds, channels, "active", None)
         /\ archived = PostedAt(places, guilds, channels, "archived", "OWNER")
    /\ now = 0
    /\ nextId = MaxArchiveIds + 1
    /\ ops = 0
    /\ job = [w \in Workers |-> Idle]
    /\ last = NoHandler
    /\ overlaps = 0
    /\ overlap = "none"
    /\ joinlog = [t \in TableIds |-> NoLog]
    /\ order = [t \in TableIds |-> <<>>]
    /\ temp = NoFile
    /\ LimiterStart
    /\ SettingsStart

RemoveNext ==
    \/ \E guild_id \in Guilds : remove_tables_for_guild(guild_id)
    \/ \E channel_id \in Channels : remove_tables_for_channel(channel_id)

RemoveSpec == RemoveInit /\ [][RemoveNext]_vars

\* the ids the last removal had to move, and what holds after it
RemovalDue ==
    IF last.op = "remove_tables_for_guild"
    THEN {t \in DOMAIN last.act : last.act[t].guild_id = last.user}
    ELSE {t \in DOMAIN last.act : last.act[t].channel_id = last.user}

\* C39: after remove_tables_for_guild(g) no active table has guild_id g, every
\* table that was active for g is archived with reason KICK, the tables of
\* other guilds and the archive's earlier records are unchanged, and the
\* returned count is the number of tables moved; remove_tables_for_channel
\* does the same for the tables of a deleted channel.
C39_RemovalArchivesAllOfGuildOrChannel ==
    last.op \in {"remove_tables_for_guild", "remove_tables_for_channel"} =>
        LET act == ReadJson(active)
            arc == ReadJson(archived)
        IN /\ \A t \in DOMAIN act :
                 IF last.op = "remove_tables_for_guild"
                 THEN act[t].guild_id # last.user
                 ELSE act[t].channel_id # last.user
           /\ \A t \in RemovalDue :
                 /\ t \in DOMAIN arc
                 /\ arc[t] = [last.act[t] EXCEPT !.archive_reason = ArchiveReasonKICK]
           /\ DOMAIN act = (DOMAIN last.act) \ RemovalDue
           /\ \A t \in DOMAIN act : act[t] = last.act[t]
           /\ DOMAIN arc = (DOMAIN last.arc) \cup RemovalDue
           /\ \A t \in DOMAIN last.arc : arc[t] = last.arc[t]
           /\ last.archived_count = Cardinality(RemovalDue)

\* a guild removed that had an active table and an archived one, while a
\* table of another guild or channel stays active
C39_Witness ==
    /\ last.op = "remove_tables_for_guild"
    /\ last.archived_count >= 1
    /\ active # <<>>
    /\ \E t \in DOMAIN archived : t \notin RemovalDue /\ archived[t].guild_id = last.user

\* ------------------------------------------------------- the wait hint
\* C40: the wait hint is sufficient: when a check for key k at time t is
\* Denied with waitSeconds = w and no other call for k is admitted in
\* between, a check for k at time t + w is Allowed.
C40_WaitHintIsSufficient ==
    \A i \in DOMAIN calls : \A j \in SameKeyBefore(i) :
        (/\ ~calls[j].allowed
         /\ calls[i].at = calls[j].at + timedelta(calls[j].wait_seconds)
         /\ \A k \in SameKeyBefore(i) : k > j => ~calls[k].allowed)
            => calls[i].allowed

====
